---- MODULE Spec2Model ----
(***************************************************************************)
(* GenAI-OIDC-IdP: the signed-artifact subsystem (src/tools/jwt.ts), the   *)
(* in-memory token registry (src/db/memory.ts) and the tool-call layer of  *)
(* the decision engine (src/llm/openai.ts), as a state machine.            *)
(*                                                                         *)
(* Strings are TLA+ strings, bytes are naturals below 256.  base64url and  *)
(* JSON are computed character by character.  The platform primitives      *)
(* crypto.subtle.sign / crypto.subtle.digest are replaced by a 15-bit      *)
(* polynomial digest with the same interface (bytes in, fixed-width bytes  *)
(* out); it has no collision between two inputs that differ in one byte.   *)
(***************************************************************************)
EXTENDS Integers, Sequences, FiniteSets, TLC

-----------------------------------------------------------------------------
(* Characters and bytes (TextEncoder / TextDecoder on ASCII text)          *)

AsciiLow == " !\"#$%&'()*+,-./0123456789:;<=>?@ABCDEFGHIJKLMNOPQRSTUVWXYZ[\\]^_"

AsciiHigh == "abcdefghijklmnopqrstuvwxyz{|}~"

CharAt(s, i) == SubSeq(s, i, i)

(* code points 32..95 and 97..126 *)
TextCodes == (32..95) \cup (97..126)

CodeChar ==
  [ b \in TextCodes |-> IF b < 96 THEN CharAt(AsciiLow, b - 31) ELSE CharAt(AsciiHigh, b - 96) ]

AsciiChars == { CodeChar[b] : b \in TextCodes }

CharCode == [ c \in AsciiChars |-> CHOOSE b \in TextCodes : CodeChar[b] = c ]

TextEncode(s) == [ i \in 1..Len(s) |-> CharCode[CharAt(s, i)] ]

(* the recursions below halve their range, to keep them shallow *)
RECURSIVE TextDecodeRange(_, _, _)
TextDecodeRange(bytes, lo, hi) ==
  IF lo > hi THEN ""
  ELSE IF lo = hi THEN CodeChar[bytes[lo]]
  ELSE LET mid == (lo + hi) \div 2
       IN  TextDecodeRange(bytes, lo, mid) \o TextDecodeRange(bytes, mid + 1, hi)

TextDecode(bytes) == TextDecodeRange(bytes, 1, Len(bytes))

IsText(bytes) == \A i \in 1..Len(bytes) : bytes[i] \in TextCodes

(* the first index from i on at which s holds c, or 0 *)
IndexOfFrom(s, c, i) ==
  LET hits == { j \in i..Len(s) : CharAt(s, j) = c }
  IN  IF hits = {} THEN 0 ELSE CHOOSE j \in hits : \A k \in hits : j <= k

(* String.prototype.split(c) for a one-character separator *)
Split(s, c) ==
  LET hits == { j \in 1..Len(s) : CharAt(s, j) = c }
      n == Cardinality(hits)
      hit(k) == IF k = 0 THEN 0
                ELSE IF k = n + 1 THEN Len(s) + 1
                ELSE CHOOSE j \in hits : Cardinality({ i \in hits : i < j }) = k - 1
  IN  [ k \in 1..(n + 1) |-> SubSeq(s, hit(k - 1) + 1, hit(k) - 1) ]

-----------------------------------------------------------------------------
(* @std/encoding/base64url                                                 *)

B64Alphabet == "ABCDEFGHIJKLMNOPQRSTUVWXYZabcdefghijklmnopqrstuvwxyz0123456789-_"

B64Char == [ v \in 0..63 |-> CharAt(B64Alphabet, v + 1) ]

B64Chars == { B64Char[v] : v \in 0..63 }

B64Val == [ c \in B64Chars |-> CHOOSE v \in 0..63 : B64Char[v] = c ]

(* base64 of one group of up to three bytes, with or without "=" padding *)
B64Group(g, pad) ==
  IF Len(g) = 1 THEN
    B64Char[g[1] \div 4] \o B64Char[(g[1] % 4) * 16] \o pad \o pad
  ELSE IF Len(g) = 2 THEN
    B64Char[g[1] \div 4] \o B64Char[(g[1] % 4) * 16 + (g[2] \div 16)]
      \o B64Char[(g[2] % 16) * 4] \o pad
  ELSE
    B64Char[g[1] \div 4] \o B64Char[(g[1] % 4) * 16 + (g[2] \div 16)]
      \o B64Char[(g[2] % 16) * 4 + (g[3] \div 64)] \o B64Char[g[3] % 64]

Min(a, b) == IF a < b THEN a ELSE b

(* groups lo..hi of the bytes *)
RECURSIVE B64EncodeGroups(_, _, _, _)
B64EncodeGroups(bytes, lo, hi, pad) ==
  IF lo > hi THEN ""
  ELSE IF lo = hi THEN B64Group(SubSeq(bytes, 3 * lo - 2, Min(3 * lo, Len(bytes))), pad)
  ELSE LET mid == (lo + hi) \div 2
       IN  B64EncodeGroups(bytes, lo, mid, pad) \o B64EncodeGroups(bytes, mid + 1, hi, pad)

B64Encode(bytes, pad) == B64EncodeGroups(bytes, 1, (Len(bytes) + 2) \div 3, pad)

encodeBase64UrlPadded(bytes) == B64Encode(bytes, "=")

encodeBase64Url(bytes) == B64Encode(bytes, "")

IsB64Url(s) ==
  /\ \A i \in 1..Len(s) : CharAt(s, i) \in B64Chars
  /\ Len(s) % 4 # 1

B64Quad(q) ==
  LET v(i) == B64Val[CharAt(q, i)]
  IN  IF Len(q) = 2 THEN << v(1) * 4 + (v(2) \div 16) >>
      ELSE IF Len(q) = 3 THEN << v(1) * 4 + (v(2) \div 16),
                                 (v(2) % 16) * 16 + (v(3) \div 4) >>
      ELSE << v(1) * 4 + (v(2) \div 16),
              (v(2) % 16) * 16 + (v(3) \div 4),
              (v(3) % 4) * 64 + v(4) >>

RECURSIVE B64DecodeQuads(_, _, _)
B64DecodeQuads(s, lo, hi) ==
  IF lo > hi THEN <<>>
  ELSE IF lo = hi THEN B64Quad(SubSeq(s, 4 * lo - 3, Min(4 * lo, Len(s))))
  ELSE LET mid == (lo + hi) \div 2
       IN  B64DecodeQuads(s, lo, mid) \o B64DecodeQuads(s, mid + 1, hi)

B64Decode(s) == B64DecodeQuads(s, 1, (Len(s) + 3) \div 4)

(* decodeBase64Url throws on a character outside the alphabet or on an     *)
(* impossible length; the result carries the throw as ok = FALSE.          *)
decodeBase64Url(s) ==
  IF IsB64Url(s) THEN [ok |-> TRUE, bytes |-> B64Decode(s)]
  ELSE [ok |-> FALSE, bytes |-> <<>>]

-----------------------------------------------------------------------------
(* Digest primitives: the bytes, after a leading 1, read as a number in     *)
(* base 256 modulo the prime 32749                                         *)

(* << the bytes lo..hi read in base 256, 256 to the number of bytes >>,    *)
(* both modulo the prime                                                   *)
RECURSIVE PolyMod(_, _, _)
PolyMod(bytes, lo, hi) ==
  IF lo > hi THEN << 0, 1 >>
  ELSE IF lo = hi THEN << bytes[lo], 256 >>
  ELSE LET mid == (lo + hi) \div 2
           left == PolyMod(bytes, lo, mid)
           right == PolyMod(bytes, mid + 1, hi)
       IN  << (left[1] * right[2] + right[1]) % 32749, (left[2] * right[2]) % 32749 >>

Digest(bytes) ==
  LET p == PolyMod(bytes, 1, Len(bytes))
  IN  (p[2] + p[1]) % 32749

DigestBytes(h) == << h \div 256, h % 256 >>

(* crypto.subtle.digest("SHA-256", data) *)
Sha256(data) == DigestBytes(Digest(data))

(* a tag that depends on the key alone *)
hmacSha256KeyOnly(key, data) == DigestBytes(Digest(key \o DigestBytes(Digest(key))))

(* crypto.subtle.sign("HMAC", key, data): inner and outer keyed digest *)
hmacSha256(key, data) ==
  DigestBytes(Digest(key \o DigestBytes(Digest(key \o data))))

-----------------------------------------------------------------------------
(* JavaScript values and objects.  A value is undefined, null, a string, a  *)
(* number, a boolean or an object; an object is the sequence of its        *)
(* members in insertion order.                                             *)

Undefined == [t |-> "undefined", s |-> "", n |-> 0]

Str(x) == [t |-> "string", s |-> x, n |-> 0]

Num(x) == [t |-> "number", s |-> "", n |-> x]

Bool(b) == [t |-> "boolean", s |-> "", n |-> IF b THEN 1 ELSE 0]

Null == [t |-> "null", s |-> "", n |-> 0]

ObjVal(members) == [t |-> "object", s |-> "", n |-> 0, o |-> members]

(* an array, as the sequence of its items *)
ArrVal(items) == [t |-> "array", s |-> "", n |-> 0, a |-> items]

(* ToBoolean *)
Truthy(v) ==
  \/ v.t = "string" /\ v.s # ""
  \/ v.t \in {"number", "boolean"} /\ v.n # 0
  \/ v.t \in {"object", "array"}

(* a || b *)
OrElse(a, b) == IF Truthy(a) THEN a ELSE b

(* a === b, for values that are not objects *)
StrictEq(a, b) == a.t = b.t /\ a.s = b.s /\ a.n = b.n

HasKey(obj, k) == \E i \in 1..Len(obj) : obj[i].k = k

(* obj[k] *)
Get(obj, k) ==
  IF HasKey(obj, k)
  THEN obj[CHOOSE i \in 1..Len(obj) : obj[i].k = k].v
  ELSE Undefined

(* obj[k] = v: an existing member keeps its place *)
Put(obj, k, v) ==
  IF HasKey(obj, k)
  THEN [ i \in 1..Len(obj) |-> IF obj[i].k = k THEN [k |-> k, v |-> v] ELSE obj[i] ]
  ELSE Append(obj, [k |-> k, v |-> v])

(* { ...a, ...b } with the members of a winning over those of b *)
RECURSIVE SpreadKeepFirst(_, _)
SpreadKeepFirst(a, b) ==
  IF b = <<>> THEN a
  ELSE SpreadKeepFirst(IF HasKey(a, Head(b).k) THEN a
                       ELSE Append(a, Head(b)), Tail(b))

(* { ...a, ...b } *)
RECURSIVE Spread(_, _)
Spread(a, b) ==
  IF b = <<>> THEN a
  ELSE Spread(Put(a, Head(b).k, Head(b).v), Tail(b))

Member(k, v) == [k |-> k, v |-> v]

-----------------------------------------------------------------------------
(* JSON.stringify and JSON.parse on such values.  Strings hold no quote    *)
(* or backslash, numbers are naturals; the parser accepts the texts        *)
(* stringify can produce (no white space) and throws on anything else.     *)

Digits == "0123456789"

DigitChars == { CharAt(Digits, i) : i \in 1..10 }

DigitVal == [ c \in DigitChars |-> (CHOOSE i \in 1..10 : CharAt(Digits, i) = c) - 1 ]

RECURSIVE NumToStr(_)
NumToStr(n) ==
  IF n < 10 THEN CharAt(Digits, n + 1)
  ELSE NumToStr(n \div 10) \o CharAt(Digits, (n % 10) + 1)

Quote == "\""

Defined(m) == m.v.t # "undefined"

RECURSIVE ValueText(_)

RECURSIVE MembersText(_)
MembersText(ms) ==
  IF ms = <<>> THEN ""
  ELSE Quote \o Head(ms).k \o Quote \o ":" \o ValueText(Head(ms).v)
         \o (IF Len(ms) > 1 THEN "," ELSE "") \o MembersText(Tail(ms))

(* members whose value is undefined are left out *)
ObjectText(members) == "{" \o MembersText(SelectSeq(members, Defined)) \o "}"

RECURSIVE ItemsText(_)
ItemsText(items) ==
  IF items = <<>> THEN ""
  ELSE ValueText(Head(items)) \o (IF Len(items) > 1 THEN "," ELSE "")
         \o ItemsText(Tail(items))

ValueText(v) ==
  IF v.t = "string" THEN Quote \o v.s \o Quote
  ELSE IF v.t = "boolean" THEN (IF v.n = 1 THEN "true" ELSE "false")
  ELSE IF v.t = "null" THEN "null"
  ELSE IF v.t = "object" THEN ObjectText(v.o)
  ELSE IF v.t = "array" THEN "[" \o ItemsText(v.a) \o "]"
  ELSE NumToStr(v.n)

JsonStringify(obj) == ObjectText(obj)

ParseFail == [ok |-> FALSE, v |-> Undefined, next |-> 0]

ParseString(s, i) ==
  IF i > Len(s) \/ CharAt(s, i) # Quote THEN ParseFail
  ELSE LET j == IndexOfFrom(s, Quote, i + 1)
       IN  IF j = 0 \/ IndexOfFrom(SubSeq(s, i + 1, j - 1), "\\", 1) # 0
           THEN ParseFail
           ELSE [ok |-> TRUE, v |-> Str(SubSeq(s, i + 1, j - 1)), next |-> j + 1]

RECURSIVE DigitsEnd(_, _)
DigitsEnd(s, i) ==
  IF i <= Len(s) /\ CharAt(s, i) \in DigitChars THEN DigitsEnd(s, i + 1) ELSE i

RECURSIVE StrToNum(_, _)
StrToNum(s, acc) ==
  IF s = "" THEN acc
  ELSE StrToNum(SubSeq(s, 2, Len(s)), acc * 10 + DigitVal[CharAt(s, 1)])

ParseNumber(s, i) ==
  LET j == DigitsEnd(s, i)
  IN  IF j = i \/ (j > i + 1 /\ CharAt(s, i) = "0") \/ j - i > 9 THEN ParseFail
      ELSE [ok |-> TRUE, v |-> Num(StrToNum(SubSeq(s, i, j - 1), 0)), next |-> j]

ParseLiteral(s, i, word, v) ==
  IF i + Len(word) - 1 <= Len(s) /\ SubSeq(s, i, i + Len(word) - 1) = word
  THEN [ok |-> TRUE, v |-> v, next |-> i + Len(word)]
  ELSE ParseFail

RECURSIVE ParseMembers(_, _, _)

(* s holds an opening brace at i *)
ParseObject(s, i) ==
  IF i + 1 <= Len(s) /\ CharAt(s, i + 1) = "}"
  THEN [ok |-> TRUE, v |-> ObjVal(<<>>), next |-> i + 2]
  ELSE ParseMembers(s, i + 1, <<>>)

RECURSIVE ParseItems(_, _, _)

(* s holds an opening bracket at i *)
ParseArray(s, i) ==
  IF i + 1 <= Len(s) /\ CharAt(s, i + 1) = "]"
  THEN [ok |-> TRUE, v |-> ArrVal(<<>>), next |-> i + 2]
  ELSE ParseItems(s, i + 1, <<>>)

ParseValue(s, i) ==
  IF i > Len(s) THEN ParseFail
  ELSE IF CharAt(s, i) = Quote THEN ParseString(s, i)
  ELSE IF CharAt(s, i) = "{" THEN ParseObject(s, i)
  ELSE IF CharAt(s, i) = "[" THEN ParseArray(s, i)
  ELSE IF CharAt(s, i) = "t" THEN ParseLiteral(s, i, "true", Bool(TRUE))
  ELSE IF CharAt(s, i) = "f" THEN ParseLiteral(s, i, "false", Bool(FALSE))
  ELSE IF CharAt(s, i) = "n" THEN ParseLiteral(s, i, "null", Null)
  ELSE ParseNumber(s, i)

(* after an item: a comma and more items, or the closing bracket *)
AfterItem(s, item, acc) ==
  IF ~item.ok \/ item.next > Len(s) THEN ParseFail
  ELSE IF CharAt(s, item.next) = "," THEN ParseItems(s, item.next + 1, Append(acc, item.v))
  ELSE IF CharAt(s, item.next) = "]"
       THEN [ok |-> TRUE, v |-> ArrVal(Append(acc, item.v)), next |-> item.next + 1]
  ELSE ParseFail

ParseItems(s, i, acc) == AfterItem(s, ParseValue(s, i), acc)

(* after a member's value: a comma and more members, or the closing brace *)
AfterValue(s, k, val, acc) ==
  IF ~val.ok \/ val.next > Len(s) THEN ParseFail
  ELSE IF CharAt(s, val.next) = "," THEN ParseMembers(s, val.next + 1, Put(acc, k, val.v))
  ELSE IF CharAt(s, val.next) = "}"
       THEN [ok |-> TRUE, v |-> ObjVal(Put(acc, k, val.v)), next |-> val.next + 1]
  ELSE ParseFail

(* after a member's key: a colon and the value *)
AfterKey(s, key, acc) ==
  IF ~key.ok \/ key.next > Len(s) \/ CharAt(s, key.next) # ":" THEN ParseFail
  ELSE AfterValue(s, key.v.s, ParseValue(s, key.next + 1), acc)

ParseMembers(s, i, acc) == AfterKey(s, ParseString(s, i), acc)

(* a SyntaxError is carried as ok = FALSE; obj holds the members of a      *)
(* parsed object and is empty for any other value, whose properties all    *)
(* read as undefined                                                       *)
ParseError == [ok |-> FALSE, v |-> Undefined, obj |-> <<>>]

ParseWhole(s, r) ==
  IF r.ok /\ r.next = Len(s) + 1
  THEN [ok |-> TRUE, v |-> r.v, obj |-> IF r.v.t = "object" THEN r.v.o ELSE <<>>]
  ELSE ParseError

JsonParse(s) == ParseWhole(s, ParseValue(s, 1))

-----------------------------------------------------------------------------
(* src/tools/jwt.ts                                                        *)

VARIABLES
  now,            \* Date.now(), in milliseconds
  currentIssuer,  \* the module-level issuer, "" while it is null
  rnd,            \* number of crypto.getRandomValues draws made so far
  artifact,       \* the signed artifact the caller currently holds, "" if none
  last,           \* the most recent call and what it returned
  authorizationCodes, accessTokens, refreshTokens,  \* the MemoryDB maps
  clients, users, \* the MemoryDB client and user maps, by client_id and user id
  req,            \* the token request being served
  redemptions,    \* the grants redeemed so far, in order
  issued,         \* how the held artifact was issued: by which call, from which
                  \* claims set or arguments
  inflight        \* the requests being served side by side, by request id

jwtVars == << currentIssuer, rnd, artifact >>

dbVars == << authorizationCodes, accessTokens, refreshTokens >>

reqVars == << req, redemptions >>

sideVars == << issued, inflight >>

tableVars == << clients, users >>

vars == << now, jwtVars, last, dbVars, tableVars, reqVars, sideVars >>

(* Deno.env.get("JWT_SECRET") || "default-secret-change-me", JWT_SECRET unset *)
getJwtSecret == "default-secret-change-me"

(* currentIssuer || Deno.env.get("ISSUER") || "http://localhost:8000", ISSUER unset *)
getIssuer(issuer) == IF issuer # "" THEN issuer ELSE "http://localhost:8000"

(* Math.floor(Date.now() / 1000) *)
NowSeconds(ms) == ms \div 1000

(* crypto.getRandomValues: the draw number seed, as length bytes; two draws *)
(* never give the same bytes                                               *)
RandomBytes(length, seed) == [ i \in 1..length |-> IF i = length THEN seed ELSE 0 ]

generateRandomString(length, seed) == encodeBase64Url(RandomBytes(length, seed))

JwtHeader == << Member("alg", Str("HS256")), Member("typ", Str("JWT")) >>

(* the HMAC tag of the signing input under a secret, base64url-encoded *)
SignatureB64(secret, signingInput) ==
  encodeBase64Url(hmacSha256(TextEncode(secret), TextEncode(signingInput)))

EncodeJson(obj) == encodeBase64Url(TextEncode(JsonStringify(obj)))

SignInput(secret, signingInput) ==
  signingInput \o "." \o SignatureB64(secret, signingInput)

signJwtWith(secret, payload, ms, issuer) ==
  SignInput(secret,
            EncodeJson(JwtHeader) \o "." \o
            EncodeJson(Spread(<< Member("iss", Str(getIssuer(issuer))),
                                 Member("iat", Num(NowSeconds(ms))) >>, payload)))

signJwt(payload, ms, issuer) == signJwtWith(getJwtSecret, payload, ms, issuer)

createAuthorizationCodeJwt(params, ms, issuer, seed) ==
  LET ttl == OrElse(Get(params, "expiresIn"), Num(600))
      payload == << Member("type", Str("authorization_code")),
                    Member("client_id", Get(params, "client_id")),
                    Member("user_id", Get(params, "user_id")),
                    Member("redirect_uri", Get(params, "redirect_uri")),
                    Member("scope", Get(params, "scope")),
                    Member("code_challenge", Get(params, "code_challenge")),
                    Member("code_challenge_method", Get(params, "code_challenge_method")),
                    Member("nonce", Get(params, "nonce")),
                    Member("exp", Num(NowSeconds(ms) + ttl.n)),
                    Member("jti", Str(generateRandomString(16, seed))) >>
  IN  signJwt(payload, ms, issuer)

createIdToken(params, ms, issuer) ==
  LET ttl == OrElse(Get(params, "expiresIn"), Num(3600))
      base == << Member("sub", Get(params, "sub")),
                 Member("aud", Get(params, "aud")),
                 Member("exp", Num(NowSeconds(ms) + ttl.n)),
                 Member("auth_time", OrElse(Get(params, "auth_time"), Num(NowSeconds(ms)))) >>
      payload == IF Truthy(Get(params, "nonce"))
                 THEN Put(base, "nonce", Get(params, "nonce"))
                 ELSE base
  IN  signJwt(payload, ms, issuer)

(* payload.exp && payload.exp < now *)
ExpiredTest(exp, nowSec) == Truthy(exp) /\ exp.t = "number" /\ exp.n < nowSec

(* The result is null (ok = FALSE) or the payload; at names the return     *)
(* statement that produced it.                                             *)
JwtNull(at) == [ok |-> FALSE, payload |-> <<>>, at |-> at]

(* a comparison of the lengths alone *)
SignatureTestLength(signatureB64, expectedSignatureB64) ==
  Len(signatureB64) # Len(expectedSignatureB64)

(* signatureB64 !== expectedSignatureB64 *)
SignatureTest(signatureB64, expectedSignatureB64) == signatureB64 # expectedSignatureB64

(* JSON.parse(decoder.decode(decodeBase64Url(payloadB64))) *)
ParseDecoded(decoded) ==
  IF decoded.ok /\ IsText(decoded.bytes) THEN JsonParse(TextDecode(decoded.bytes))
  ELSE ParseError

(* the checks on the decoded payload; a throw above lands in the catch *)
CheckPayload(parsed, ms) ==
  IF ~parsed.ok \/ parsed.v.t = "null" THEN JwtNull("catch")
  ELSE IF ExpiredTest(Get(parsed.obj, "exp"), NowSeconds(ms)) THEN JwtNull("expired")
  ELSE [ok |-> TRUE, payload |-> parsed.obj, at |-> "payload"]

CheckParts(parts, ms) ==
  IF Len(parts) # 3 THEN JwtNull("parts")
  ELSE IF SignatureTest(parts[3], SignatureB64(getJwtSecret, parts[1] \o "." \o parts[2]))
       THEN JwtNull("signature")
  ELSE CheckPayload(ParseDecoded(decodeBase64Url(parts[2])), ms)

verifyAndDecodeJwt(token, ms) == CheckParts(Split(token, "."), ms)

(* S256 compared without hashing the verifier *)
verifyCodeChallengeUnhashed(codeVerifier, codeChallenge, methodArg) ==
  methodArg.s \in { "plain", "S256" } /\ StrictEq(codeVerifier, codeChallenge)

(* every method other than plain treated as S256 *)
verifyCodeChallengeLenient(codeVerifier, codeChallenge, methodArg) ==
  IF StrictEq(methodArg, Str("plain")) THEN StrictEq(codeVerifier, codeChallenge)
  ELSE StrictEq(Str(encodeBase64Url(Sha256(TextEncode(codeVerifier.s)))), codeChallenge)

(* method: string = "S256" takes the default only for undefined *)
verifyCodeChallenge(codeVerifier, codeChallenge, methodArg) ==
  LET method == IF methodArg.t = "undefined" THEN Str("S256") ELSE methodArg
      computedChallenge == Str(encodeBase64Url(Sha256(TextEncode(codeVerifier.s))))
  IN  IF StrictEq(method, Str("plain")) THEN StrictEq(codeVerifier, codeChallenge)
      ELSE IF StrictEq(method, Str("S256")) THEN StrictEq(computedChallenge, codeChallenge)
      ELSE FALSE

ToolReturn(result) == [throws |-> FALSE, result |-> result]

ToolThrow == [throws |-> TRUE, result |-> <<>>]

InvalidCode ==
  << Member("valid", Bool(FALSE)),
     Member("error", Str("Invalid or expired authorization code")) >>

(* !payload *)
TypeTestAbsent(jwt) == ~jwt.ok

(* !payload || payload.type !== "authorization_code" *)
TypeTest(jwt) == ~jwt.ok \/ ~StrictEq(Get(jwt.payload, "type"), Str("authorization_code"))

(* args.code as string: split on a non-string throws inside the try *)
VerifyCodeArg(code, ms) ==
  IF code.t = "string" THEN verifyAndDecodeJwt(code.s, ms) ELSE JwtNull("catch")

(* the result with S256 filled in when the grant names no method *)
VerifyResultDefaultMethod(jwt) ==
  IF TypeTest(jwt) THEN InvalidCode
  ELSE << Member("valid", Bool(TRUE)),
          Member("client_id", Get(jwt.payload, "client_id")),
          Member("user_id", Get(jwt.payload, "user_id")),
          Member("redirect_uri", Get(jwt.payload, "redirect_uri")),
          Member("scope", Get(jwt.payload, "scope")),
          Member("code_challenge", Get(jwt.payload, "code_challenge")),
          Member("code_challenge_method",
                 OrElse(Get(jwt.payload, "code_challenge_method"), Str("S256"))),
          Member("nonce", Get(jwt.payload, "nonce")) >>

VerifyResult(jwt) ==
  IF TypeTest(jwt) THEN InvalidCode
  ELSE << Member("valid", Bool(TRUE)),
          Member("client_id", Get(jwt.payload, "client_id")),
          Member("user_id", Get(jwt.payload, "user_id")),
          Member("redirect_uri", Get(jwt.payload, "redirect_uri")),
          Member("scope", Get(jwt.payload, "scope")),
          Member("code_challenge", Get(jwt.payload, "code_challenge")),
          Member("code_challenge_method", Get(jwt.payload, "code_challenge_method")),
          Member("nonce", Get(jwt.payload, "nonce")) >>

executeToolCall(toolName, args, ms, issuer, seed) ==
  CASE toolName = "create_authorization_code" ->
         ToolReturn(<< Member("code", Str(createAuthorizationCodeJwt(
             << Member("client_id", Get(args, "client_id")),
                Member("user_id", Get(args, "user_id")),
                Member("redirect_uri", Get(args, "redirect_uri")),
                Member("scope", Get(args, "scope")),
                Member("code_challenge", Get(args, "code_challenge")),
                Member("code_challenge_method", Get(args, "code_challenge_method")),
                Member("nonce", Get(args, "nonce")) >>, ms, issuer, seed))) >>)
    [] toolName = "verify_authorization_code" ->
         ToolReturn(VerifyResult(VerifyCodeArg(Get(args, "code"), ms)))
    [] toolName = "generate_authorization_code" ->
         ToolReturn(<< Member("code", Str(generateRandomString(32, seed))) >>)
    [] toolName = "generate_access_token" ->
         ToolReturn(<< Member("access_token", Str(generateRandomString(48, seed))) >>)
    [] toolName = "generate_refresh_token" ->
         ToolReturn(<< Member("refresh_token", Str(generateRandomString(64, seed))) >>)
    [] toolName = "create_id_token" ->
         ToolReturn(<< Member("id_token", Str(createIdToken(
             << Member("sub", Get(args, "sub")),
                Member("aud", Get(args, "aud")),
                Member("nonce", Get(args, "nonce")),
                Member("expiresIn", Get(args, "expires_in")) >>, ms, issuer))) >>)
    [] toolName = "verify_pkce_challenge" ->
         ToolReturn(<< Member("valid", Bool(verifyCodeChallenge(
             Get(args, "code_verifier"),
             Get(args, "code_challenge"),
             Get(args, "code_challenge_method")))) >>)
    [] OTHER -> ToolThrow

(* the tools that draw from crypto.getRandomValues *)
RandomTools ==
  { "create_authorization_code", "generate_authorization_code",
    "generate_access_token", "generate_refresh_token" }

-----------------------------------------------------------------------------
(* The artifact operations as a state machine: a caller issues artifacts   *)
(* through the tools, holds the latest one, and presents it, a tampered    *)
(* copy of it, or a forged string for verification while the clock runs.   *)

MaxRandom == 2

NoCall == [op |-> "none"]

Idle == [pc |-> "idle"]

NotIssued == [by |-> "none", of |-> <<>>]

(* initializeTestData, ADDITIONAL_REDIRECT_URIS unset *)
ClientRecord(id, secret, uris, name, grants, scope) ==
  << Member("client_id", Str(id)),
     Member("client_secret", Str(secret)),
     Member("redirect_uris", ArrVal(uris)),
     Member("client_name", Str(name)),
     Member("grant_types", ArrVal(grants)),
     Member("response_types", ArrVal(<< Str("code") >>)),
     Member("scope", Str(scope)) >>

Clients ==
  ( "test-client-1" :>
      ClientRecord("test-client-1", "test-secret-1",
                   << Str("http://localhost:3000/callback"),
                      Str("http://localhost:8080/callback") >>,
                   "Test Application 1",
                   << Str("authorization_code"), Str("refresh_token") >>,
                   "openid profile email") ) @@
  ( "test-client-2" :>
      ClientRecord("test-client-2", "test-secret-2",
                   << Str("http://localhost:4000/auth/callback") >>,
                   "Test Application 2",
                   << Str("authorization_code") >>,
                   "openid profile") )

UserRecord(id, password, email, name, given, family) ==
  << Member("user_id", Str(id)),
     Member("username", Str(id)),
     Member("password", Str(password)),
     Member("email", Str(email)),
     Member("name", Str(name)),
     Member("given_name", Str(given)),
     Member("family_name", Str(family)) >>

Users ==
  ( "user1" :> UserRecord("user1", "password1", "user1@example.com",
                          "Test User One", "Test", "User One") ) @@
  ( "user2" :> UserRecord("user2", "password2", "user2@example.com",
                          "Test User Two", "Test", "User Two") ) @@
  ( "admin" :> UserRecord("admin", "admin123", "admin@example.com",
                          "Administrator", "Admin", "User") )

InitCommon ==
  /\ currentIssuer = ""
  /\ rnd = 0
  /\ artifact = ""
  /\ last = NoCall
  /\ authorizationCodes = <<>>
  /\ accessTokens = <<>>
  /\ refreshTokens = <<>>
  /\ req = Idle
  /\ redemptions = <<>>
  /\ issued = NotIssued
  /\ inflight = <<>>
  /\ clients = Clients
  /\ users = Users

Init == now = 0 /\ InitCommon

(* the instants at which the clock is read *)
JwtInstants == { 0, 1000, 1500, 2000, 3000, 600000, 601000 }

Tick(instants) ==
  /\ last = NoCall
  /\ \E t \in instants : t > now /\ now' = t
  /\ UNCHANGED << tableVars, jwtVars, last, dbVars, reqVars, sideVars >>

Args(members) == SelectSeq(members, Defined)

GrantArgs ==
  { Args(<< Member("client_id", Str("c1")),
            Member("user_id", Str("user1")),
            Member("redirect_uri", Str("https://rp/cb")),
            Member("scope", Str("openid")),
            Member("code_challenge", ch[1]),
            Member("code_challenge_method", ch[2]),
            Member("nonce", nonce) >>) :
      ch \in { << Undefined, Undefined >>,
               << Str(encodeBase64Url(Sha256(TextEncode("verifierXYZ")))), Str("S256") >> },
      nonce \in { Str("n1") } }

(* grants without the optional fields, and with a nonce only *)
PlainGrantArgs ==
  { Args(<< Member("client_id", Str("c1")),
            Member("user_id", Str("user1")),
            Member("redirect_uri", Str("https://rp/cb")),
            Member("scope", Str("")),
            Member("nonce", nonce) >>) :
      nonce \in { Undefined, Str("n2") } }

IdTokenArgs ==
  { Args(<< Member("sub", Str("user1")),
            Member("aud", Str("c1")),
            Member("expires_in", ttl) >>) :
      ttl \in { Undefined, Num(0), Num(1), Num(2) } }

(* executeToolCall("create_authorization_code", args) *)
CreateAuthorizationCode(argSet) ==
  /\ last = NoCall
  /\ rnd < MaxRandom
  /\ \E args \in argSet :
       \E out \in { executeToolCall("create_authorization_code", args, now,
                                     currentIssuer, rnd + 1) } :
         /\ artifact' = Get(out.result, "code").s
         /\ last' = [op |-> "create_authorization_code", args |-> args, out |-> out]
         /\ issued' = [by |-> "create_authorization_code", of |-> args]
  /\ rnd' = rnd + 1
  /\ UNCHANGED << tableVars, now, currentIssuer, dbVars, reqVars, inflight >>

(* executeToolCall("create_id_token", args) *)
CreateIdToken(argSet) ==
  /\ last = NoCall
  /\ \E args \in argSet :
       \E out \in { executeToolCall("create_id_token", args, now, currentIssuer, rnd) } :
         /\ artifact' = Get(out.result, "id_token").s
         /\ last' = [op |-> "create_id_token", args |-> args, out |-> out]
         /\ issued' = [by |-> "create_id_token", of |-> args]
  /\ UNCHANGED << tableVars, now, currentIssuer, rnd, dbVars, reqVars, inflight >>

(* a verification that accepts only codes found in the instance's registry *)
VerifyCallRegistered(op, code) ==
  [ op |-> op,
    code |-> code,
    jwt |-> VerifyCodeArg(Str(code), now),
    out |-> IF code \in DOMAIN authorizationCodes /\ code \notin DOMAIN accessTokens
            THEN executeToolCall("verify_authorization_code",
                                 << Member("code", Str(code)) >>, now, currentIssuer, rnd)
            ELSE ToolReturn(InvalidCode) ]

(* executeToolCall("verify_authorization_code", {code}); the record keeps  *)
(* what verifyAndDecodeJwt returned inside the call                        *)
VerifyCall(op, code) ==
  [ op |-> op,
    code |-> code,
    jwt |-> VerifyCodeArg(Str(code), now),
    out |-> executeToolCall("verify_authorization_code",
                            << Member("code", Str(code)) >>, now, currentIssuer, rnd) ]

PresentArtifact ==
  /\ last = NoCall
  /\ artifact # ""
  /\ last' = VerifyCall("verify", artifact)
  /\ UNCHANGED << tableVars, now, jwtVars, dbVars, reqVars, sideVars >>

Tamper(s, pos, c) == SubSeq(s, 1, pos - 1) \o c \o SubSeq(s, pos + 1, Len(s))

(* the replacements tried at a position: another base64url character, the *)
(* segment separator, and a character outside the base64url alphabet      *)
TamperChars(c) == { IF c = "A" THEN "Q" ELSE "A", ".", "!" } \ { c }

PresentTampered ==
  /\ last = NoCall
  /\ artifact # ""
  /\ \E pos \in 1..Len(artifact) :
       \E c \in TamperChars(CharAt(artifact, pos)) :
         last' = (VerifyCall("tampered", Tamper(artifact, pos, c))
                    @@ [base |-> artifact, pos |-> pos])
  /\ UNCHANGED << tableVars, now, jwtVars, dbVars, reqVars, sideVars >>

(* strings that were never issued: signed under another secret, with an    *)
(* undecodable payload, with a missing or padded tag, with the wrong       *)
(* number of segments, or tagged correctly over a payload that is not JSON *)
ForgedPayload ==
  << Member("type", Str("authorization_code")),
     Member("client_id", Str("c1")),
     Member("user_id", Str("admin")),
     Member("exp", Num(999999)) >>

StalePayload ==
  << Member("type", Str("authorization_code")),
     Member("client_id", Str("c1")),
     Member("user_id", Str("admin")),
     Member("exp", Num(1)) >>

HeaderB64 == EncodeJson(JwtHeader)

Forged ==
  { signJwtWith("attacker-secret", ForgedPayload, 0, ""),
    signJwtWith("attacker-secret", StalePayload, 0, ""),
    HeaderB64 \o ".!!!." \o SignatureB64("attacker-secret", HeaderB64 \o ".!!!"),
    HeaderB64 \o ".e30.",
    HeaderB64 \o ".e30." \o encodeBase64UrlPadded(
        hmacSha256(TextEncode(getJwtSecret), TextEncode(HeaderB64 \o ".e30"))),
    HeaderB64 \o ".!!!." \o SignatureB64(getJwtSecret, HeaderB64 \o ".!!!"),
    "", "a.b", "a.b.c.d" }

PresentForged ==
  /\ last = NoCall
  /\ \E f \in Forged : last' = VerifyCall("forged", f)
  /\ UNCHANGED << tableVars, now, jwtVars, dbVars, reqVars, sideVars >>

(* the caller has read the result and is ready for its next call *)
Return ==
  /\ last # NoCall
  /\ req = Idle
  /\ last' = NoCall
  /\ UNCHANGED << tableVars, now, jwtVars, dbVars, reqVars, sideVars >>

Next ==
  \/ Tick(JwtInstants)
  \/ CreateAuthorizationCode(GrantArgs \cup PlainGrantArgs)
  \/ CreateIdToken(IdTokenArgs)
  \/ PresentArtifact
  \/ PresentForged
  \/ Return

Spec == Init /\ [][Next]_vars

(* the same caller at a fixed instant, presenting tampered copies *)
TamperIdTokenArgs == { a \in IdTokenArgs : ~HasKey(a, "expires_in") }

NextTamper ==
  \/ CreateAuthorizationCode(GrantArgs)
  \/ CreateIdToken(TamperIdTokenArgs)
  \/ PresentArtifact
  \/ PresentTampered
  \/ Return

SpecTamper == Init /\ [][NextTamper]_vars

-----------------------------------------------------------------------------
(* Properties of the artifact operations                                   *)

Segments(token) == Split(token, ".")

(* the claims a token carries, read without any check *)
ClaimsOf(token) == ParseDecoded(decodeBase64Url(Segments(token)[2])).obj

IsVerification == last.op \in { "verify", "tampered", "forged" }

(* C1: a copy of a signed artifact with one character of its header,       *)
(* payload or signature changed is never decoded: verifyAndDecodeJwt       *)
(* returns null and verify_authorization_code answers valid = false.       *)
TamperDetection ==
  last.op = "tampered" =>
    /\ ~last.jwt.ok
    /\ ~Truthy(Get(last.out.result, "valid"))

(* a tampered copy whose changed character lies in the payload segment and *)
(* is still a base64url character was presented and rejected               *)
TamperWitness ==
  /\ last.op = "tampered"
  /\ Len(Segments(last.code)) = 3
  /\ last.pos > Len(Segments(last.base)[1]) + 1
  /\ last.pos <= Len(Segments(last.base)[1]) + 1 + Len(Segments(last.base)[2])
  /\ CharAt(last.code, last.pos) \in B64Chars
  /\ ~last.jwt.ok

(* C2: a correctly signed artifact with exp = T is accepted when the clock *)
(* reads T - 1 and rejected as expired when it reads T or T + 1.           *)
ExpiryBoundary ==
  last.op = "verify" =>
    /\ NowSeconds(now) = Get(ClaimsOf(last.code), "exp").n - 1 => last.jwt.ok
    /\ NowSeconds(now) \in { Get(ClaimsOf(last.code), "exp").n,
                             Get(ClaimsOf(last.code), "exp").n + 1 } =>
         ~last.jwt.ok /\ last.jwt.at = "expired"

(* C6: a three-segment token whose third segment is not the HMAC of        *)
(* header.payload under the secret is rejected at the signature            *)
(* comparison, whatever its payload holds and before the payload is read.  *)
BadSignature(token) ==
  /\ Len(Segments(token)) = 3
  /\ Segments(token)[3] #
       SignatureB64(getJwtSecret, Segments(token)[1] \o "." \o Segments(token)[2])

SignatureFirst ==
  IsVerification /\ BadSignature(last.code) =>
    ~last.jwt.ok /\ last.jwt.at = "signature"

(* a token with a wrong tag over a payload that cannot be decoded was      *)
(* rejected at the signature comparison                                    *)
SignatureFirstWitness ==
  /\ last.op = "forged"
  /\ BadSignature(last.code)
  /\ ~decodeBase64Url(Segments(last.code)[2]).ok
  /\ last.jwt.at = "signature"

(* C15: a failed grant verification tells its cause: the answer to a       *)
(* failure whose cause is a wrong signature, an expired artifact, an       *)
(* unreadable payload or a wrong artifact type differs from the answer to  *)
(* a failure caused by a malformed artifact (one without three segments).  *)
FailureCause(call) == IF call.jwt.ok THEN "type" ELSE call.jwt.at

MalformedAnswer ==
  executeToolCall("verify_authorization_code", << Member("code", Str("a.b")) >>,
                  now, currentIssuer, rnd).result

FailureDiscriminated ==
  /\ IsVerification
  /\ ~Truthy(Get(last.out.result, "valid"))
  /\ FailureCause(last) # "parts"
  => last.out.result # MalformedAnswer

-----------------------------------------------------------------------------
(* signJwt and verifyAndDecodeJwt called directly: a caller signs a claims *)
(* set, keeps the token, and has it verified while the clock runs          *)

(* the members of a claims set, given as pairs of name and value *)
ClaimsOfPairs(pairs) == [ i \in 1..Len(pairs) |-> Member(pairs[i][1], pairs[i][2]) ]

(* claims sets that carry exp: with and without iss and iat, with the      *)
(* members in another order, with an optional member left undefined, with  *)
(* a boolean, a null and a nested object, and with exp = 0                 *)
ClaimsSets ==
  { ClaimsOfPairs(<< << "iss", Str("https://other.example") >>, << "iat", Num(5) >>,
                     << "exp", Num(10) >>, << "sub", Str("user1") >> >>),
    ClaimsOfPairs(<< << "exp", Num(10) >>, << "sub", Str("user1") >>,
                     << "iat", Num(7) >>, << "iss", Str("https://other.example") >> >>),
    ClaimsOfPairs(<< << "iss", Str("") >>, << "iat", Num(0) >>, << "exp", Num(10) >>,
                     << "nonce", Undefined >>, << "admin", Bool(FALSE) >>,
                     << "acr", Null >>,
                     << "cnf", ObjVal(<< Member("kid", Str("k1")) >>) >> >>),
    ClaimsOfPairs(<< << "sub", Str("user1") >>, << "exp", Num(10) >> >>),
    ClaimsOfPairs(<< << "iat", Num(3) >>, << "exp", Num(600) >> >>),
    ClaimsOfPairs(<< << "iss", Str("https://other.example") >>, << "exp", Num(10) >> >>),
    ClaimsOfPairs(<< << "sub", Str("user1") >>, << "exp", Num(0) >> >>) }

RoundTripInstants == { 0, 5000, 9000, 9999, 10000, 11000 }

(* signJwt(payload) *)
SignJwt(payloads) ==
  /\ last = NoCall
  /\ \E payload \in payloads :
       /\ issued' = [by |-> "signJwt", of |-> payload]
       /\ artifact' = signJwt(payload, now, currentIssuer)
       /\ last' = [op |-> "signJwt", payload |-> payload]
  /\ UNCHANGED << tableVars, now, currentIssuer, rnd, dbVars, reqVars, inflight >>

(* verifyAndDecodeJwt(token) on the token signJwt returned *)
VerifySigned ==
  /\ last = NoCall
  /\ issued.by = "signJwt"
  /\ last' = [ op |-> "verifyAndDecodeJwt",
               token |-> artifact,
               jwt |-> verifyAndDecodeJwt(artifact, now) ]
  /\ UNCHANGED << tableVars, now, jwtVars, dbVars, reqVars, sideVars >>

NextRoundTrip ==
  \/ Tick(RoundTripInstants)
  \/ SignJwt(ClaimsSets)
  \/ VerifySigned
  \/ Return

SpecRoundTrip == Init /\ [][NextRoundTrip]_vars

Keys(obj) == { obj[i].k : i \in 1..Len(obj) }

(* two claims sets hold the same value under every name; a member that is  *)
(* undefined counts as absent                                              *)
SameClaims(a, b) == \A k \in Keys(a) \cup Keys(b) : Get(a, k) = Get(b, k)

BeforeExpiry == HasKey(issued.of, "exp") /\ NowSeconds(now) < Get(issued.of, "exp").n

(* C11: for a claims set C that carries exp and a clock value before       *)
(* C.exp, verifyAndDecodeJwt(signJwt(C)) returns a claims set equal to C.  *)
RoundTrip ==
  last.op = "verifyAndDecodeJwt" /\ BeforeExpiry =>
    last.jwt.ok /\ SameClaims(last.jwt.payload, issued.of)

(* C11, as the code has it: before C.exp the token is decoded, every       *)
(* member of C comes back with its value, and the only names that can come *)
(* back beyond those of C are iss and iat, which signJwt writes when C     *)
(* does not carry them; the result equals C when C carries both.           *)
RoundTripCarried ==
  last.op = "verifyAndDecodeJwt" /\ BeforeExpiry =>
    /\ last.jwt.ok
    /\ \A k \in Keys(issued.of) : Get(last.jwt.payload, k) = Get(issued.of, k)
    /\ Keys(last.jwt.payload) \subseteq Keys(issued.of) \cup { "iss", "iat" }
    /\ { "iss", "iat" } \subseteq Keys(issued.of) =>
         SameClaims(last.jwt.payload, issued.of)

(* a claims set that carries its own iss and iat, written after exp, came  *)
(* back equal from a verification before its expiry                        *)
RoundTripWitness ==
  /\ last.op = "verifyAndDecodeJwt"
  /\ BeforeExpiry
  /\ now > 0
  /\ { "iss", "iat" } \subseteq Keys(issued.of)
  /\ issued.of[1].k = "exp"
  /\ last.jwt.ok
  /\ SameClaims(last.jwt.payload, issued.of)

(* C28: the expiry check is triggered by the presence of exp, not by its   *)
(* truthiness: a correctly signed artifact with exp = 0 is rejected as     *)
(* expired at every clock value now >= 0.                                  *)
ZeroExpRejected ==
  last.op = "verifyAndDecodeJwt" /\ Get(issued.of, "exp") = Num(0) =>
    ~last.jwt.ok /\ last.jwt.at = "expired"

(* C12: verify_authorization_code applied, before its expiry, to the code  *)
(* create_authorization_code returned answers valid = true with the        *)
(* client_id, user_id, redirect_uri, scope, code_challenge,                *)
(* code_challenge_method and nonce that were supplied; an optional field   *)
(* that was not supplied comes back undefined.                             *)
GrantFields ==
  { "client_id", "user_id", "redirect_uri", "scope",
    "code_challenge", "code_challenge_method", "nonce" }

HoldsGrant == issued.by = "create_authorization_code" /\ last.code = artifact

GrantRoundTrip ==
  /\ last.op = "verify"
  /\ HoldsGrant
  /\ NowSeconds(now) < Get(ClaimsOf(artifact), "exp").n
  => /\ StrictEq(Get(last.out.result, "valid"), Bool(TRUE))
     /\ \A k \in GrantFields : Get(last.out.result, k) = Get(issued.of, k)
     /\ Keys(Args(last.out.result)) = Keys(issued.of) \cup { "valid" }

(* a grant issued without code_challenge, code_challenge_method and nonce  *)
(* was verified one second before its expiry and came back without them    *)
GrantRoundTripWitness ==
  /\ last.op = "verify"
  /\ HoldsGrant
  /\ NowSeconds(now) = Get(ClaimsOf(artifact), "exp").n - 1
  /\ Keys(issued.of) = { "client_id", "user_id", "redirect_uri", "scope" }
  /\ Keys(Args(last.out.result)) = Keys(issued.of) \cup { "valid" }

(* exp minus iat, as written into the artifact *)
Lifetime(token) == Get(ClaimsOf(token), "exp").n - Get(ClaimsOf(token), "iat").n

(* C25: for every issued artifact exp minus iat is the time-to-live in     *)
(* force: 600 seconds for a grant of create_authorization_code, and for an *)
(* ID token of create_id_token the supplied expires_in, for every supplied *)
(* value including 0, or 3600 seconds when none is supplied.               *)
LifetimeInForce ==
  /\ last.op = "create_authorization_code" => Lifetime(artifact) = 600
  /\ last.op = "create_id_token" =>
       Lifetime(artifact) = IF HasKey(last.args, "expires_in")
                            THEN Get(last.args, "expires_in").n
                            ELSE 3600

-----------------------------------------------------------------------------
(* Artifacts of every kind under the one secret: grants and ID tokens from *)
(* the tools, and claims sets signed directly whose type member is         *)
(* missing, is another string, or is not a string                          *)

TypedClaims ==
  { << Member("type", type), Member("client_id", Str("c1")),
       Member("user_id", Str("user1")), Member("exp", Num(999999)) >> :
      type \in { Str("authorization_code"), Str("id_token"), Str("AUTHORIZATION_CODE"),
                 Str("authorization_code "), Str(""), Undefined, Null, Num(1),
                 Bool(TRUE), ObjVal(<< Member("type", Str("authorization_code")) >>) } }

TypedInstants == { 0, 1000, 3600000 }

NextTyped ==
  \/ Tick(TypedInstants)
  \/ SignJwt(TypedClaims)
  \/ CreateAuthorizationCode(GrantArgs)
  \/ CreateIdToken(IdTokenArgs)
  \/ PresentArtifact
  \/ Return

SpecTyped == Init /\ [][NextTyped]_vars

WellSigned(token) == Len(Segments(token)) = 3 /\ ~BadSignature(token)

(* C14: verify_authorization_code answers valid = false for every          *)
(* correctly signed artifact whose type claim is not the string            *)
(* authorization_code, expired or not; an ID token issued by               *)
(* create_id_token is never accepted as a grant.                           *)
TypeChecked ==
  last.op = "verify" =>
    /\ WellSigned(last.code)
         /\ Get(ClaimsOf(last.code), "type") # Str("authorization_code")
       => StrictEq(Get(last.out.result, "valid"), Bool(FALSE))
    /\ issued.by = "create_id_token" /\ last.code = artifact
       => StrictEq(Get(last.out.result, "valid"), Bool(FALSE))

(* an unexpired ID token passed the signature and expiry checks of         *)
(* verifyAndDecodeJwt and was refused as a grant                           *)
TypeCheckedWitness ==
  /\ last.op = "verify"
  /\ issued.by = "create_id_token"
  /\ last.code = artifact
  /\ now > 0
  /\ last.jwt.ok
  /\ StrictEq(Get(last.out.result, "valid"), Bool(FALSE))

-----------------------------------------------------------------------------
(* PKCE verification, called directly and through the verify_pkce_challenge *)
(* tool, over verifier, challenge and method strings                       *)

PkceVerifiers == { "verifierXYZ", "wrong", "" }

(* the unpadded base64url text of the SHA-256 digest of v *)
S256Of(v) == B64Encode(Sha256(TextEncode(v)), "")

(* the S256 challenge of each verifier, each verifier itself, and a padded *)
(* S256 challenge                                                          *)
PkceChallenges ==
  { S256Of(v) : v \in PkceVerifiers } \cup PkceVerifiers
    \cup { B64Encode(Sha256(TextEncode("verifierXYZ")), "=") }

PkceMethods == { "plain", "S256", "", "s256", "PLAIN", "unknown" }

CallVerifyCodeChallenge ==
  /\ last = NoCall
  /\ \E v \in PkceVerifiers, c \in PkceChallenges, m \in PkceMethods :
       last' = [ op |-> "verifyCodeChallenge",
                 verifier |-> v, challenge |-> c, method |-> m,
                 result |-> verifyCodeChallenge(Str(v), Str(c), Str(m)) ]
  /\ UNCHANGED << tableVars, now, jwtVars, dbVars, reqVars, sideVars >>

(* the arguments a verify_pkce_challenge call can carry: the method is a   *)
(* string or is left out                                                   *)
PkceToolArgs ==
  { Args(<< Member("code_verifier", Str(v)),
            Member("code_challenge", Str(c)),
            Member("code_challenge_method", m) >>) :
      v \in PkceVerifiers, c \in PkceChallenges,
      m \in { Str(x) : x \in PkceMethods } \cup { Undefined } }

(* executeToolCall("verify_pkce_challenge", args) *)
CallVerifyPkceChallenge ==
  /\ last = NoCall
  /\ \E args \in PkceToolArgs :
       \E out \in { executeToolCall("verify_pkce_challenge", args, now,
                                     currentIssuer, rnd) } :
         last' = [op |-> "verify_pkce_challenge", args |-> args, out |-> out]
  /\ UNCHANGED << tableVars, now, jwtVars, dbVars, reqVars, sideVars >>

NextPkce ==
  \/ CallVerifyCodeChallenge
  \/ CallVerifyPkceChallenge
  \/ Return

SpecPkce == Init /\ [][NextPkce]_vars

(* C8: verifyCodeChallenge(v, c, "S256") is true exactly when c is the     *)
(* unpadded base64url SHA-256 digest of v, and verifyCodeChallenge(v, c,   *)
(* "plain") is true exactly when v = c.                                    *)
PkceExact ==
  last.op = "verifyCodeChallenge" =>
    /\ last.method = "S256" => (last.result <=> last.challenge = S256Of(last.verifier))
    /\ last.method = "plain" => (last.result <=> last.challenge = last.verifier)

(* an S256 verification that succeeded, and the padded form of the same    *)
(* digest is one of the challenges                                         *)
PkceExactWitness ==
  /\ last.op = "verifyCodeChallenge"
  /\ last.method = "S256"
  /\ last.verifier = "verifierXYZ"
  /\ last.challenge = S256Of("verifierXYZ")
  /\ last.result

(* C9: for a method string other than exactly "plain" and "S256",          *)
(* verifyCodeChallenge returns false whatever the verifier and challenge,  *)
(* and the call does not throw.                                            *)
UnknownMethod(m) == m \notin { "plain", "S256" }

UnknownMethodFails ==
  /\ last.op = "verifyCodeChallenge" /\ UnknownMethod(last.method) => last.result = FALSE
  /\ /\ last.op = "verify_pkce_challenge"
     /\ HasKey(last.args, "code_challenge_method")
     /\ UnknownMethod(Get(last.args, "code_challenge_method").s)
     => /\ ~last.out.throws
        /\ StrictEq(Get(last.out.result, "valid"), Bool(FALSE))

(* method "s256" with a pair that matches under S256 was answered false *)
UnknownMethodWitness ==
  /\ last.op = "verifyCodeChallenge"
  /\ last.method = "s256"
  /\ last.challenge = S256Of(last.verifier)
  /\ last.result = FALSE

(* C10: a verify_pkce_challenge call that carries no code_challenge_method *)
(* never returns valid = true.                                             *)
MethodRequired ==
  last.op = "verify_pkce_challenge" /\ ~HasKey(last.args, "code_challenge_method") =>
    ~Truthy(Get(last.out.result, "valid"))

-----------------------------------------------------------------------------
(* src/db/memory.ts: the MemoryDB maps, keyed by code or token string, and *)
(* the registry tools of src/llm/openai.ts                                 *)

MapHas(m, k) == k \in DOMAIN m

(* Map.prototype.get: the stored object or undefined *)
MapGet(m, k) == IF MapHas(m, k) THEN ObjVal(m[k]) ELSE Undefined

MapSet(m, k, v) == [ x \in (DOMAIN m) \cup { k } |-> IF x = k THEN v ELSE m[x] ]

MapDelete(m, k) == [ x \in (DOMAIN m) \ { k } |-> m[x] ]

saveAuthorizationCode(codes, code) == MapSet(codes, Get(code, "code").s, code)

getAuthorizationCode(codes, code) == MapGet(codes, code)

markAuthorizationCodeAsUsed(codes, code) ==
  IF MapHas(codes, code)
  THEN MapSet(codes, code, Put(codes[code], "used", Bool(TRUE)))
  ELSE codes

(* a save that keeps the record already stored under the token string *)
saveAccessTokenOnce(tokens, token) ==
  IF MapHas(tokens, Get(token, "token").s) THEN tokens
  ELSE MapSet(tokens, Get(token, "token").s, token)

saveAccessToken(tokens, token) == MapSet(tokens, Get(token, "token").s, token)

getAccessToken(tokens, token) == MapGet(tokens, token)

deleteAccessToken(tokens, token) == MapDelete(tokens, token)

saveRefreshToken(tokens, token) == MapSet(tokens, Get(token, "token").s, token)

(* a sweep that keeps expired records and stamps them instead *)
SweepStamping(m, ms) ==
  [ k \in DOMAIN m |-> IF Get(m[k], "expires_at").n < ms
                       THEN Put(m[k], "expires_at", Num(0))
                       ELSE m[k] ]

(* one loop of cleanupExpiredTokens: delete where expires_at < now *)
Sweep(m, ms) ==
  [ k \in { x \in DOMAIN m : ~(Get(m[x], "expires_at").n < ms) } |-> m[k] ]

(* const { [k]: _, ...rest } = obj *)
Omit(obj, k) == SelectSeq(obj, LAMBDA m : m.k # k)

getClient(clientId) == IF clientId.t = "string" THEN MapGet(clients, clientId.s) ELSE Undefined

getUser(userId) == IF userId.t = "string" THEN MapGet(users, userId.s) ELSE Undefined

(* Array.from(users.values()).find(u => u.username === username), then the *)
(* password compared with ===; null when either fails                      *)
validateUserCredentials(username, password) ==
  LET found == { id \in DOMAIN users : /\ StrictEq(Get(users[id], "username"), username)
                                        /\ StrictEq(Get(users[id], "password"), password) }
  IN  IF found = {} THEN Null ELSE ObjVal(users[CHOOSE id \in found : TRUE])

(* an answer that carries the stored record as it is *)
WholeAnswer(flag, name, record, secret) ==
  IF Truthy(record)
  THEN << Member(flag, Bool(TRUE)), Member(name, record) >>
  ELSE << Member(flag, Bool(FALSE)) >>

(* the answer with the record under name, its secret member left out *)
SafeAnswer(flag, name, record, secret) ==
  IF Truthy(record)
  THEN << Member(flag, Bool(TRUE)), Member(name, ObjVal(Omit(record.o, secret))) >>
  ELSE << Member(flag, Bool(FALSE)) >>

DbToolNames ==
  { "get_client", "validate_user_credentials", "get_user",
    "save_authorization_code", "get_authorization_code",
    "mark_authorization_code_used", "save_access_token", "get_access_token" }

DbReturn(result, codes, tokens) ==
  [ throws |-> FALSE, result |-> result,
    authorizationCodes |-> codes, accessTokens |-> tokens ]

(* Date.now() + expiresIn * 1000 with expiresIn = args.expires_in_seconds || dflt *)
ExpiresAt(args, dflt, ms) ==
  Num(ms + OrElse(Get(args, "expires_in_seconds"), Num(dflt)).n * 1000)

FoundCode(authCode) ==
  IF Truthy(authCode)
  THEN << Member("found", Bool(TRUE)), Member("authorization_code", authCode) >>
  ELSE << Member("found", Bool(FALSE)) >>

FoundToken(accessToken, ms) ==
  IF Truthy(accessToken)
  THEN << Member("found", Bool(TRUE)),
          Member("expired", Bool(Get(accessToken.o, "expires_at").n < ms)),
          Member("access_token", accessToken) >>
  ELSE << Member("found", Bool(FALSE)) >>

(* the result carries the code and token maps as the call left them; the   *)
(* client and user maps are written by the constructor only                *)
executeDbToolCall(toolName, args, ms, codes, tokens) ==
  CASE toolName = "get_client" ->
         DbReturn(SafeAnswer("found", "client", getClient(Get(args, "client_id")),
                             "client_secret"), codes, tokens)
    [] toolName = "validate_user_credentials" ->
         DbReturn(SafeAnswer("valid", "user",
                             validateUserCredentials(Get(args, "username"),
                                                     Get(args, "password")),
                             "password"), codes, tokens)
    [] toolName = "get_user" ->
         DbReturn(SafeAnswer("found", "user", getUser(Get(args, "user_id")), "password"),
                  codes, tokens)
    [] toolName = "save_authorization_code" ->
         DbReturn(<< Member("saved", Bool(TRUE)) >>,
                  saveAuthorizationCode(codes,
                    << Member("code", Get(args, "code")),
                       Member("client_id", Get(args, "client_id")),
                       Member("user_id", Get(args, "user_id")),
                       Member("redirect_uri", Get(args, "redirect_uri")),
                       Member("scope", Get(args, "scope")),
                       Member("code_challenge", Get(args, "code_challenge")),
                       Member("code_challenge_method", Get(args, "code_challenge_method")),
                       Member("nonce", Get(args, "nonce")),
                       Member("expires_at", ExpiresAt(args, 600, ms)),
                       Member("used", Bool(FALSE)) >>),
                  tokens)
    [] toolName = "get_authorization_code" ->
         DbReturn(FoundCode(getAuthorizationCode(codes, Get(args, "code").s)), codes, tokens)
    [] toolName = "mark_authorization_code_used" ->
         DbReturn(<< Member("marked", Bool(TRUE)) >>,
                  markAuthorizationCodeAsUsed(codes, Get(args, "code").s), tokens)
    [] toolName = "save_access_token" ->
         DbReturn(<< Member("saved", Bool(TRUE)) >>, codes,
                  saveAccessToken(tokens,
                    << Member("token", Get(args, "token")),
                       Member("client_id", Get(args, "client_id")),
                       Member("user_id", Get(args, "user_id")),
                       Member("scope", Get(args, "scope")),
                       Member("expires_at", ExpiresAt(args, 3600, ms)) >>))
    [] toolName = "get_access_token" ->
         DbReturn(FoundToken(getAccessToken(tokens, Get(args, "token").s), ms), codes, tokens)
    [] toolName \notin DbToolNames ->
         [ throws |-> TRUE, result |-> <<>>,
           authorizationCodes |-> codes, accessTokens |-> tokens ]

-----------------------------------------------------------------------------
(* The registry as a state machine: records are saved through the tools,   *)
(* looked up and deleted through the MemoryDB methods, and swept by the    *)
(* interval timer of main.ts while the clock runs.                         *)

RegistryInstants == { 0, 100, 200, 1100 }

TokenNames == { "t1", "t2", "t3" }

AccessTokenArgs ==
  { Args(<< Member("token", Str(t)),
            Member("client_id", Str("c1")),
            Member("user_id", Str("user1")),
            Member("scope", Str("openid")),
            Member("expires_in_seconds", ttl) >>) :
      t \in TokenNames, ttl \in { Num(1) } }
    \cup
  { Args(<< Member("token", Str("t1")),
            Member("client_id", Str("c1")),
            Member("user_id", Str("user2")),
            Member("scope", Str("openid")) >>) }

LookupArgs == { << Member("token", Str(t)) >> : t \in TokenNames }

CodeArgs ==
  { << Member("code", Str("code1")),
       Member("client_id", Str("c1")),
       Member("user_id", Str("user1")),
       Member("redirect_uri", Str("https://rp/cb")),
       Member("scope", Str("openid")),
       Member("expires_in_seconds", Num(1)) >> }

RefreshTokens ==
  { << Member("token", Str("r1")),
       Member("client_id", Str("c1")),
       Member("user_id", Str("user1")),
       Member("scope", Str("openid")),
       Member("expires_at", Num(1100)) >> }

(* a call of a registry tool: the maps become what the call left *)
DbToolCall(toolName, argSet) ==
  /\ last = NoCall
  /\ \E args \in argSet :
       \E out \in { executeDbToolCall(toolName, args, now,
                                      authorizationCodes, accessTokens) } :
         /\ authorizationCodes' = out.authorizationCodes
         /\ accessTokens' = out.accessTokens
         /\ last' = [op |-> toolName, args |-> args, out |-> out]
  /\ UNCHANGED << tableVars, now, jwtVars, refreshTokens, reqVars, sideVars >>

SaveRefreshToken ==
  /\ last = NoCall
  /\ \E r \in RefreshTokens :
       /\ refreshTokens' = saveRefreshToken(refreshTokens, r)
       /\ last' = [op |-> "saveRefreshToken", record |-> r]
  /\ UNCHANGED << tableVars, now, jwtVars, authorizationCodes, accessTokens, reqVars, sideVars >>

(* a lookup that drops the record it finds expired *)
GetAccessTokenEvicting ==
  /\ last = NoCall
  /\ \E t \in TokenNames :
       /\ last' = [op |-> "getAccessToken", token |-> t,
                   result |-> getAccessToken(accessTokens, t)]
       /\ accessTokens' = IF MapHas(accessTokens, t)
                              /\ Get(accessTokens[t], "expires_at").n < now
                           THEN MapDelete(accessTokens, t)
                           ELSE accessTokens
  /\ UNCHANGED << tableVars, now, jwtVars, authorizationCodes, refreshTokens, reqVars, sideVars >>

GetAccessToken ==
  /\ last = NoCall
  /\ \E t \in TokenNames :
       last' = [op |-> "getAccessToken", token |-> t,
                result |-> getAccessToken(accessTokens, t)]
  /\ UNCHANGED << tableVars, now, jwtVars, dbVars, reqVars, sideVars >>

DeleteAccessToken ==
  /\ last = NoCall
  /\ \E t \in TokenNames :
       /\ accessTokens' = deleteAccessToken(accessTokens, t)
       /\ last' = [op |-> "deleteAccessToken", token |-> t]
  /\ UNCHANGED << tableVars, now, jwtVars, authorizationCodes, refreshTokens, reqVars, sideVars >>

(* a sweep that has no timer of its own and runs at the end of a lookup *)
CleanupOnRequest ==
  /\ last.op = "getAccessToken"
  /\ authorizationCodes' = Sweep(authorizationCodes, now)
  /\ accessTokens' = Sweep(accessTokens, now)
  /\ refreshTokens' = Sweep(refreshTokens, now)
  /\ last' = [ op |-> "cleanupExpiredTokens", at |-> now,
               authorizationCodes |-> authorizationCodes,
               accessTokens |-> accessTokens,
               refreshTokens |-> refreshTokens ]
  /\ UNCHANGED << tableVars, now, jwtVars, reqVars, sideVars >>

(* setInterval(() => db.cleanupExpiredTokens(), 60000); the record keeps   *)
(* the instant of the sweep and the maps it found                          *)
CleanupExpiredTokens ==
  /\ last = NoCall
  /\ authorizationCodes' = Sweep(authorizationCodes, now)
  /\ accessTokens' = Sweep(accessTokens, now)
  /\ refreshTokens' = Sweep(refreshTokens, now)
  /\ last' = [ op |-> "cleanupExpiredTokens", at |-> now,
               authorizationCodes |-> authorizationCodes,
               accessTokens |-> accessTokens,
               refreshTokens |-> refreshTokens ]
  /\ UNCHANGED << tableVars, now, jwtVars, reqVars, sideVars >>

NextRegistry ==
  \/ Tick(RegistryInstants)
  \/ DbToolCall("save_access_token", AccessTokenArgs)
  \/ DbToolCall("get_access_token", LookupArgs)
  \/ DbToolCall("save_authorization_code", CodeArgs)
  \/ DbToolCall("mark_authorization_code_used", CodeArgs)
  \/ SaveRefreshToken
  \/ GetAccessToken
  \/ DeleteAccessToken
  \/ CleanupExpiredTokens
  \/ Return

SpecRegistry == Init /\ [][NextRegistry]_vars

ExpiresAtOf(record) == Get(record, "expires_at").n

(* C7: after cleanupExpiredTokens has run at instant T, no access-token    *)
(* record it found with expires_at <= T is still returned by getAccessToken *)
(* (of records at T - 100, T and T + 100 only the last remains).           *)
SweepRemovesExpired ==
  last.op = "cleanupExpiredTokens" =>
    \A t \in DOMAIN last.accessTokens :
      ExpiresAtOf(last.accessTokens[t]) <= last.at =>
        ~Truthy(getAccessToken(accessTokens, t))

(* the token strings stored before and after a step *)
KeptTokens == DOMAIN accessTokens \cap DOMAIN accessTokens'

(* C18: once a record is stored under a token string, what get returns for *)
(* that token string never changes while a record exists under it: no      *)
(* registry operation alters a stored record.                              *)
RecordsImmutable ==
  [][ \A t \in KeptTokens : accessTokens'[t] = accessTokens[t] ]_vars

(* C18, as the code has it: a stored record changes only through a save    *)
(* under the same token string, which replaces it; lookups, deletes of     *)
(* other tokens, saves of other tokens, code and refresh-token operations  *)
(* and sweeps leave it as it is.                                           *)
RecordsChangeBySave ==
  [][ \A t \in KeptTokens :
        accessTokens'[t] # accessTokens[t] =>
          /\ last'.op = "save_access_token"
          /\ Get(last'.args, "token") = Str(t) ]_vars

(* a sweep removed an expired record and left another record, stored under *)
(* a different token string, exactly as it was                             *)
RecordsWitness ==
  /\ last.op = "cleanupExpiredTokens"
  /\ DOMAIN accessTokens # DOMAIN last.accessTokens
  /\ \E t \in DOMAIN accessTokens : accessTokens[t] = last.accessTokens[t]

(* the steps that change what is stored under token string t *)
SavedUnder(t) == last'.op = "save_access_token" /\ Get(last'.args, "token") = Str(t)

DeletedAt(t) == last'.op = "deleteAccessToken" /\ last'.token = t

SweptAt(t) ==
  /\ last'.op = "cleanupExpiredTokens"
  /\ t \in DOMAIN accessTokens
  /\ ExpiresAtOf(accessTokens[t]) < last'.at

(* the record holds what the save was given, expiring ttl seconds later *)
HoldsSaved(record, args, ms) ==
  /\ record.t = "object"
  /\ \A k \in { "token", "client_id", "user_id", "scope" } :
       Get(record.o, k) = Get(args, k)
  /\ ExpiresAtOf(record.o) =
       ms + 1000 * (IF HasKey(args, "expires_in_seconds")
                    THEN Get(args, "expires_in_seconds").n ELSE 3600)

(* C19: get returns absent for a token string nothing is stored under;     *)
(* after a save of r it returns r, and goes on returning it until a later  *)
(* save under the same token string (whose record it then returns), a      *)
(* delete of that token string, or a sweep at an instant past the record's *)
(* expiry, after which it returns absent.                                  *)
LookupFollowsStore ==
  /\ \A t \in TokenNames : getAccessToken(accessTokens, t) = Undefined
  /\ [][ \A t \in TokenNames :
           /\ SavedUnder(t) =>
                HoldsSaved(getAccessToken(accessTokens', t), last'.args, now)
           /\ DeletedAt(t) \/ SweptAt(t) =>
                getAccessToken(accessTokens', t) = Undefined
           /\ ~SavedUnder(t) /\ ~DeletedAt(t) /\ ~SweptAt(t) =>
                getAccessToken(accessTokens', t) = getAccessToken(accessTokens, t)
           /\ last'.op = "getAccessToken" /\ last'.token = t =>
                last'.result = getAccessToken(accessTokens, t) ]_vars

(* after the clock has moved and with other tokens stored, a lookup        *)
(* returned the record saved under t1 for user2                            *)
LookupWitness ==
  /\ last.op = "getAccessToken"
  /\ last.token = "t1"
  /\ Truthy(last.result)
  /\ Get(last.result.o, "user_id") = Str("user2")
  /\ now > 0
  /\ Cardinality(DOMAIN accessTokens) > 1

(* C20: get_access_token checks expiry itself: for a stored record with    *)
(* expires_at <= now it answers found with expired = true, although no     *)
(* sweep has removed the record.                                           *)
ExpiryReported ==
  /\ last.op = "get_access_token"
  /\ Truthy(Get(last.out.result, "found"))
  /\ ExpiresAtOf(Get(last.out.result, "access_token").o) <= now
  => Get(last.out.result, "expired") = Bool(TRUE)

(* what get_authorization_code answers for the code string in a registry: *)
(* found with the given used flag                                          *)
AnswersUsed(codes, c, flag) ==
  /\ Truthy(Get(executeDbToolCall("get_authorization_code", << Member("code", Str(c)) >>,
                                  now, codes, accessTokens).result, "found"))
  /\ Get(Get(executeDbToolCall("get_authorization_code", << Member("code", Str(c)) >>,
                               now, codes, accessTokens).result,
             "authorization_code").o, "used") = Bool(flag)

(* C27: once mark_authorization_code_used has been applied to a stored     *)
(* authorization code, no later registry operation makes                   *)
(* get_authorization_code return that code string with used = false: a     *)
(* code that is answered with used = true is not answered with             *)
(* used = false after any step.                                            *)
UsedStaysUsed ==
  [][ AnswersUsed(authorizationCodes, "code1", TRUE) =>
        ~AnswersUsed(authorizationCodes', "code1", FALSE) ]_vars

-----------------------------------------------------------------------------
(* Two process instances that hold the same secret.  The variables are the *)
(* redeeming instance: its issuer, its registry, its clock.  The grant the *)
(* caller presents was issued by another instance, under that instance's   *)
(* issuer; the redeeming instance serves requests of its own (which set    *)
(* its issuer) and records and marks codes in its own registry.            *)

(* the issuer of the other instance while it signs: none set, or its own   *)
(* origin                                                                  *)
ElsewhereIssuers == { "", "https://idp-2.example" }

(* the origin under which requests reach the redeeming instance *)
InstanceIssuers == { "https://idp.example" }

InstanceInstants == { 0, 599000 }

ElsewhereArgs == { a \in GrantArgs : HasKey(a, "code_challenge") }

(* the number of grants the other instance issues *)
MaxGrants == 1

(* executeToolCall("create_authorization_code", args) on the other instance *)
IssueElsewhere ==
  /\ last = NoCall
  /\ rnd < MaxGrants
  /\ \E issuer \in ElsewhereIssuers, args \in ElsewhereArgs :
       \E out \in { executeToolCall("create_authorization_code", args, now,
                                     issuer, rnd + 1) } :
         /\ artifact' = Get(out.result, "code").s
         /\ last' = [op |-> "create_authorization_code", args |-> args, out |-> out]
         /\ issued' = [by |-> "create_authorization_code", of |-> args]
  /\ rnd' = rnd + 1
  /\ UNCHANGED << tableVars, now, currentIssuer, dbVars, reqVars, inflight >>

(* setIssuer(issuer), called by the router for a request to this instance *)
SetIssuer ==
  /\ last = NoCall
  /\ \E issuer \in InstanceIssuers \ { currentIssuer } :
       /\ currentIssuer' = issuer
       /\ last' = [op |-> "setIssuer", issuer |-> issuer]
  /\ UNCHANGED << tableVars, now, rnd, artifact, dbVars, reqVars, sideVars >>

(* the held grant as the arguments of the registry's code tools *)
HeldCodeArgs ==
  { << Member("code", Str(artifact)),
       Member("client_id", Str("c1")),
       Member("user_id", Str("user1")),
       Member("redirect_uri", Str("https://rp/cb")),
       Member("scope", Str("openid")) >> }

NextInstances ==
  \/ Tick(InstanceInstants)
  \/ IssueElsewhere
  \/ SetIssuer
  \/ DbToolCall("save_authorization_code", HeldCodeArgs)
  \/ DbToolCall("mark_authorization_code_used", HeldCodeArgs)
  \/ PresentArtifact
  \/ Return

SpecInstances == Init /\ [][NextInstances]_vars

(* C13: what verify_authorization_code answers depends on the code string, *)
(* the secret and the clock alone: whatever issuer the redeeming instance  *)
(* has set and whatever its registry holds, the answer is the one an       *)
(* instance with no issuer and an empty registry gives at that instant,    *)
(* and a grant issued by another instance is accepted before its expiry.   *)
InstanceIndependent ==
  last.op = "verify" =>
    /\ last.out = executeToolCall("verify_authorization_code",
                                  << Member("code", Str(last.code)) >>, now, "", 0)
    /\ HoldsGrant /\ NowSeconds(now) < Get(ClaimsOf(artifact), "exp").n =>
         StrictEq(Get(last.out.result, "valid"), Bool(TRUE))

(* a grant signed under another issuer than the one the redeeming instance *)
(* has set, and recorded as used in the redeeming instance's registry, was *)
(* accepted                                                                *)
InstanceWitness ==
  /\ last.op = "verify"
  /\ HoldsGrant
  /\ currentIssuer # ""
  /\ Get(ClaimsOf(artifact), "iss").s \notin { currentIssuer, getIssuer("") }
  /\ artifact \in DOMAIN authorizationCodes
  /\ Truthy(Get(authorizationCodes[artifact], "used"))
  /\ StrictEq(Get(last.out.result, "valid"), Bool(TRUE))

-----------------------------------------------------------------------------
(* src/llm/openai.ts and src/routes/oidc.ts: the token endpoint.  callLLM   *)
(* sends the request to the decision engine, runs the tool calls the       *)
(* engine answers with, and returns the engine's final answer, which       *)
(* processTokenExchange parses and the route turns into the response.      *)

(* processToolCalls: the names sent to executeToolCall *)
JwtToolNames ==
  { "create_authorization_code", "verify_authorization_code",
    "generate_authorization_code", "generate_access_token",
    "generate_refresh_token", "create_id_token", "verify_pkce_challenge" }

(* toolsByOperation.token, in the order of the steps of tokenPrompt *)
TokenTools ==
  << "verify_authorization_code", "verify_pkce_challenge", "generate_access_token",
     "create_id_token", "save_access_token" >>

ToolContent(throws, result, codes, tokens) ==
  [ throws |-> throws,
    content |-> IF throws THEN "" ELSE JsonStringify(result),
    authorizationCodes |-> codes, accessTokens |-> tokens ]

FromJwtTool(out, codes, tokens) == ToolContent(out.throws, out.result, codes, tokens)

FromDbTool(out) ==
  ToolContent(out.throws, out.result, out.authorizationCodes, out.accessTokens)

(* a dispatch that answers a name it does not know with a result *)
DispatchToolCallAnswering(name, parsed, ms, issuer, seed, codes, tokens) ==
  IF ~parsed.ok THEN ToolContent(TRUE, <<>>, codes, tokens)
  ELSE IF name \in JwtToolNames
       THEN FromJwtTool(executeToolCall(name, parsed.obj, ms, issuer, seed), codes, tokens)
       ELSE IF name \in DbToolNames
            THEN FromDbTool(executeDbToolCall(name, parsed.obj, ms, codes, tokens))
            ELSE ToolContent(FALSE, << Member("error", Str("unknown tool")) >>,
                             codes, tokens)

(* one element of processToolCalls: JSON.parse of the arguments (parsed),  *)
(* the dispatch on the name, JSON.stringify of the result                  *)
DispatchToolCall(name, parsed, ms, issuer, seed, codes, tokens) ==
  IF ~parsed.ok THEN ToolContent(TRUE, <<>>, codes, tokens)
  ELSE IF name \in JwtToolNames
       THEN FromJwtTool(executeToolCall(name, parsed.obj, ms, issuer, seed), codes, tokens)
       ELSE FromDbTool(executeDbToolCall(name, parsed.obj, ms, codes, tokens))

processToolCall(toolCall, ms, issuer, seed, codes, tokens) ==
  DispatchToolCall(toolCall.name, JsonParse(toolCall.arguments), ms, issuer, seed,
                   codes, tokens)

(* collectedToolResults[toolName] = JSON.parse(result.content), or the     *)
(* content itself when that throws                                         *)
Collected(parsed, content) == IF parsed.ok THEN parsed.v ELSE Str(content)

(* the fields of the prompt processTokenExchange builds *)
TokenPromptOf(params) ==
  [ grant_type |-> Get(params, "grant_type").s,
    code |-> Get(params, "code").s,
    redirect_uri |-> Get(params, "redirect_uri").s,
    client_id |-> Get(params, "client_id").s,
    client_secret |-> OrElse(Get(params, "client_secret"), Str("")).s,
    code_verifier |-> OrElse(Get(params, "code_verifier"), Str("")).s ]

(* the arguments of processTokenExchange as POST /token fills them *)
TokenParamsOf(form) ==
  << Member("grant_type", OrElse(Get(form, "grant_type"), Str(""))),
     Member("code", OrElse(Get(form, "code"), Str(""))),
     Member("redirect_uri", OrElse(Get(form, "redirect_uri"), Str(""))),
     Member("client_id", OrElse(Get(form, "client_id"), Str(""))),
     Member("client_secret", Get(form, "client_secret")),
     Member("code_verifier", Get(form, "code_verifier")) >>

ServerError ==
  << Member("error", Str("server_error")),
     Member("error_description", Str("An internal error occurred")) >>

Responded(r, status, body) ==
  [ pc |-> "done", params |-> r.params, prompt |-> r.prompt, messages |-> r.messages,
    toolResults |-> r.toolResults, status |-> status, body |-> body ]

(* JSON.parse(result.response) in processTokenExchange, then the route:    *)
(* 500 when that threw, 400 when the result has an error, 200 otherwise    *)
RouteResponse(r, result) ==
  IF ~result.ok \/ result.v.t = "null" THEN Responded(r, 500, ServerError)
  ELSE IF Truthy(Get(result.obj, "error")) THEN Responded(r, 400, result.obj)
  ELSE Responded(r, 200, result.obj)

-----------------------------------------------------------------------------
(* processToolCalls on single tool calls: every defined name and names     *)
(* that are not defined, with arguments that fit every tool and with a     *)
(* text that is not JSON                                                   *)

UnknownToolNames ==
  { "", "delete_access_token", "save_refresh_token", "get_clients", "GET_CLIENT",
    "verify_authorization_code ", "toString" }

ToolCallNames == JwtToolNames \cup DbToolNames \cup UnknownToolNames

ToolCallArguments ==
  { JsonStringify(<< Member("code", Str("code1")),
                     Member("token", Str("t1")),
                     Member("client_id", Str("test-client-1")),
                     Member("user_id", Str("user1")),
                     Member("username", Str("user1")),
                     Member("password", Str("password1")),
                     Member("redirect_uri", Str("https://rp/cb")),
                     Member("scope", Str("openid")),
                     Member("sub", Str("user1")),
                     Member("aud", Str("test-client-1")),
                     Member("code_verifier", Str("verifierXYZ")),
                     Member("code_challenge", Str("verifierXYZ")),
                     Member("code_challenge_method", Str("plain")) >>),
    "{" }

(* processToolCalls([toolCall]); the record keeps the maps the call found *)
ProcessToolCall ==
  /\ last = NoCall
  /\ \E name \in ToolCallNames, arguments \in ToolCallArguments :
       /\ name \in RandomTools => rnd < MaxRandom
       /\ \E out \in { processToolCall([name |-> name, arguments |-> arguments], now,
                                       currentIssuer, rnd + 1,
                                       authorizationCodes, accessTokens) } :
            /\ authorizationCodes' = out.authorizationCodes
            /\ accessTokens' = out.accessTokens
            /\ last' = [ op |-> "processToolCall", name |-> name,
                         arguments |-> arguments, out |-> out,
                         authorizationCodes |-> authorizationCodes,
                         accessTokens |-> accessTokens,
                         refreshTokens |-> refreshTokens ]
       /\ rnd' = IF name \in RandomTools /\ JsonParse(arguments).ok THEN rnd + 1 ELSE rnd
  /\ UNCHANGED << tableVars, now, currentIssuer, artifact, refreshTokens, reqVars, sideVars >>

NextTools ==
  \/ ProcessToolCall
  \/ SaveRefreshToken
  \/ Return

SpecTools == Init /\ [][NextTools]_vars

IsUnknownCall ==
  last.op = "processToolCall" /\ last.name \notin JwtToolNames \cup DbToolNames

(* C17: a tool call whose name is not one of the defined JWT or registry   *)
(* operations throws (it is not answered with a result) and leaves the     *)
(* code, token and refresh-token maps as it found them.                    *)
UnknownToolFails ==
  IsUnknownCall =>
    /\ last.out.throws
    /\ authorizationCodes = last.authorizationCodes
    /\ accessTokens = last.accessTokens
    /\ refreshTokens = last.refreshTokens

(* delete_access_token, which no tool defines, was called for a stored     *)
(* token with well-formed arguments: it threw and the token is still there *)
UnknownToolWitness ==
  /\ IsUnknownCall
  /\ last.name = "delete_access_token"
  /\ JsonParse(last.arguments).ok
  /\ Get(JsonParse(last.arguments).obj, "token").s \in DOMAIN accessTokens
  /\ refreshTokens # <<>>
  /\ last.out.throws

-----------------------------------------------------------------------------
(* The decision engine.  Its answers are inputs to the program: a tool     *)
(* call or a final answer per round.  Following tokenPrompt it makes the   *)
(* steps of the prompt in order and acts on what they return; an engine    *)
(* that does not may leave out the PKCE step, go on after a check that     *)
(* failed, and answer with an error or with nothing at any point.          *)

ToolMove(name, args) == [name |-> name, arguments |-> JsonStringify(args)]

(* what a tool returned in this request, as the engine reads it *)
ResultOf(toolResults, name) ==
  IF MapHas(toolResults, name) /\ toolResults[name].t = "object"
  THEN toolResults[name].o
  ELSE <<>>

ErrorAnswer(code) ==
  JsonStringify(<< Member("error", Str(code)),
                   Member("error_description", Str("request rejected")) >>)

TokenAnswer(toolResults) ==
  JsonStringify(
    << Member("access_token",
              Get(ResultOf(toolResults, "generate_access_token"), "access_token")),
       Member("token_type", Str("Bearer")),
       Member("expires_in", Num(3600)),
       Member("id_token", Get(ResultOf(toolResults, "create_id_token"), "id_token")),
       Member("scope", Get(ResultOf(toolResults, "verify_authorization_code"), "scope")) >>)

(* the arguments the engine gives a tool: taken from the request and from  *)
(* the verified code                                                       *)
EngineArgs(name, prompt, toolResults, code) ==
  CASE name = "verify_authorization_code" -> << Member("code", Str(prompt.code)) >>
    [] name = "verify_pkce_challenge" ->
         Args(<< Member("code_verifier", Str(prompt.code_verifier)),
                 Member("code_challenge", Get(code, "code_challenge")),
                 Member("code_challenge_method", Get(code, "code_challenge_method")) >>)
    [] name = "generate_access_token" -> <<>>
    [] name = "create_id_token" ->
         Args(<< Member("sub", Get(code, "user_id")),
                 Member("aud", Get(code, "client_id")),
                 Member("nonce", Get(code, "nonce")) >>)
    [] name = "save_access_token" ->
         Args(<< Member("token",
                        Get(ResultOf(toolResults, "generate_access_token"),
                            "access_token")),
                 Member("client_id", Get(code, "client_id")),
                 Member("user_id", Get(code, "user_id")),
                 Member("scope", Get(code, "scope")) >>)

(* steps 2, 4, 5 and 6 of tokenPrompt: the reasons to answer with an error *)
PromptRejects(prompt, toolResults, code) ==
  \/ ~Truthy(Get(code, "valid"))
  \/ ~StrictEq(Get(code, "client_id"), Str(prompt.client_id))
  \/ ~StrictEq(Get(code, "redirect_uri"), Str(prompt.redirect_uri))
  \/ /\ MapHas(toolResults, "verify_pkce_challenge")
     /\ ~Truthy(Get(ResultOf(toolResults, "verify_pkce_challenge"), "valid"))

(* steps 7, 8 and 9: the next tool of the issuance, 0 when all have run *)
IssueStep(toolResults) ==
  IF ~MapHas(toolResults, "generate_access_token") THEN 3
  ELSE IF ~MapHas(toolResults, "create_id_token") THEN 4
  ELSE IF ~MapHas(toolResults, "save_access_token") THEN 5
  ELSE 0

(* the step of tokenPrompt that comes next, 0 for the final answer *)
PromptStep(prompt, toolResults, code) ==
  IF ~MapHas(toolResults, "verify_authorization_code") THEN 1
  ELSE IF PromptRejects(prompt, toolResults, code) THEN 0
  ELSE IF Truthy(Get(code, "code_challenge")) /\ ~MapHas(toolResults, "verify_pkce_challenge")
       THEN 2
  ELSE IssueStep(toolResults)

(* what an engine that does not act on the checks may do next: the PKCE    *)
(* step while it is due, or the issuance                                   *)
LaxSteps(toolResults, code) ==
  IF ~MapHas(toolResults, "verify_authorization_code") THEN { 1 }
  ELSE { IssueStep(toolResults) } \cup
       { i \in { 2 } : /\ Truthy(Get(code, "code_challenge"))
                       /\ ~MapHas(toolResults, "verify_pkce_challenge")
                       /\ ~MapHas(toolResults, "generate_access_token") }

EngineSteps(follows, prompt, toolResults, code) ==
  (IF follows THEN { PromptStep(prompt, toolResults, code) }
   ELSE LaxSteps(toolResults, code)) \ { 0 }

EngineToolCalls(follows, prompt, toolResults, code) ==
  { ToolMove(TokenTools[i], EngineArgs(TokenTools[i], prompt, toolResults, code)) :
      i \in EngineSteps(follows, prompt, toolResults, code) }

(* the final answers: the one the prompt asks for; or an error or an empty *)
(* content at any point and the token response once the tokens are there   *)
EngineAnswers(follows, prompt, toolResults, code) ==
  IF follows
  THEN IF PromptStep(prompt, toolResults, code) # 0 THEN {}
       ELSE IF PromptRejects(prompt, toolResults, code) THEN { ErrorAnswer("invalid_grant") }
       ELSE { TokenAnswer(toolResults) }
  ELSE { ErrorAnswer("invalid_grant"), "" } \cup
       { TokenAnswer(toolResults) : x \in { 0 } \cap LaxSteps(toolResults, code) }

-----------------------------------------------------------------------------
(* The token endpoint as a state machine: grants are issued through        *)
(* create_authorization_code, token requests present the latest grant, one *)
(* request is served at a time.                                            *)

MaxDraws == 4

MaxRedemptions == 2

TokenInstants == { 0, 601000 }

TokenForms ==
  { Args(<< Member("grant_type", Str("authorization_code")),
            Member("code", Str(artifact)),
            Member("redirect_uri", Str(uri)),
            Member("client_id", Str(client)),
            Member("code_verifier", verifier) >>) :
      uri \in { "https://rp/cb", "https://rp/cb/" },
      client \in { "c1", "c2" },
      verifier \in { Undefined, Str("verifierXYZ"), Str("wrong") } }

(* the origins under which requests reach the router *)
RequestOrigins == { "https://idp.example" }

(* POST /token up to the first request to the engine: the router's         *)
(* middleware sets the issuer to the request's origin (ISSUER unset), the  *)
(* handler reads the form and calls processTokenExchange                   *)
TokenRequest ==
  /\ last = NoCall
  /\ req = Idle
  /\ artifact # ""
  /\ rnd < MaxDraws
  /\ Len(redemptions) < MaxRedemptions
  /\ \E origin \in RequestOrigins : currentIssuer' = origin
  /\ \E form \in TokenForms :
       req' = [ pc |-> "round",
                params |-> TokenParamsOf(form),
                prompt |-> TokenPromptOf(TokenParamsOf(form)),
                messages |-> <<>>,
                toolResults |-> <<>> ]
  /\ last' = [op |-> "token"]
  /\ UNCHANGED << tableVars, now, rnd, artifact, dbVars, redemptions, sideVars >>

(* the request after a round of the loop of callLLM, or after the throw of *)
(* a tool call, which ends the request with 500                            *)
AfterToolCall(r, toolCall, out) ==
  IF out.throws THEN Responded(r, 500, ServerError)
  ELSE [ r EXCEPT
           !.messages = @ \o << [role |-> "assistant", name |-> toolCall.name,
                                 arguments |-> toolCall.arguments],
                                [role |-> "tool", content |-> out.content] >>,
           !.toolResults = MapSet(@, toolCall.name,
                                  Collected(JsonParse(out.content), out.content)) ]

(* a round of callLLM in which the engine answers with a tool call *)
ToolRound(follows) ==
  /\ req.pc = "round"
  /\ \E toolCall \in EngineToolCalls(follows, req.prompt, req.toolResults,
                                     ResultOf(req.toolResults, "verify_authorization_code")) :
       \E out \in { processToolCall(toolCall, now, currentIssuer, rnd + 1,
                                    authorizationCodes, accessTokens) } :
         /\ req' = AfterToolCall(req, toolCall, out)
         /\ rnd' = IF toolCall.name \in RandomTools THEN rnd + 1 ELSE rnd
         /\ authorizationCodes' = out.authorizationCodes
         /\ accessTokens' = out.accessTokens
  /\ UNCHANGED << tableVars, now, currentIssuer, artifact, last, refreshTokens, redemptions, sideVars >>

(* a 200 response that carries an access token *)
IsTokenResponse(r) ==
  r.pc = "done" /\ r.status = 200 /\ Truthy(Get(r.body, "access_token"))

(* verify_authorization_code answered valid = true in this request *)
CodeVerified(r) ==
  Truthy(Get(ResultOf(r.toolResults, "verify_authorization_code"), "valid"))

(* the round in which the engine gives its final answer; redemptions       *)
(* records the grant of every verified code that was answered with tokens  *)
FinalAnswer(follows) ==
  /\ req.pc = "round"
  /\ \E content \in EngineAnswers(follows, req.prompt, req.toolResults,
                                  ResultOf(req.toolResults, "verify_authorization_code")) :
       \E done \in { RouteResponse(req, JsonParse(content)) } :
         /\ req' = done
         /\ redemptions' = IF IsTokenResponse(done) /\ CodeVerified(done)
                           THEN Append(redemptions, done.prompt.code)
                           ELSE redemptions
  /\ UNCHANGED << tableVars, now, jwtVars, last, dbVars, sideVars >>

(* the response has been sent *)
Respond ==
  /\ req.pc = "done"
  /\ req' = Idle
  /\ last' = NoCall
  /\ UNCHANGED << tableVars, now, jwtVars, dbVars, redemptions, sideVars >>

NextToken(follows) ==
  \/ Tick(TokenInstants)
  \/ CreateAuthorizationCode(GrantArgs)
  \/ Return
  \/ TokenRequest
  \/ ToolRound(follows)
  \/ FinalAnswer(follows)
  \/ Respond

(* the engine follows tokenPrompt *)
NextTokenPrompt == NextToken(TRUE)

SpecToken == Init /\ [][NextTokenPrompt]_vars

(* the engine need not act on the checks *)
NextTokenAny == NextToken(FALSE)

SpecTokenAny == Init /\ [][NextTokenAny]_vars

(* C3: a grant string is redeemed at most once: after a token request that *)
(* presented it was verified and answered with tokens, no later request    *)
(* presenting the same grant is.                                           *)
RedeemedOnce ==
  \A i, j \in DOMAIN redemptions :
    i # j => redemptions[i] # redemptions[j]

(* C4: a token request presenting a grant that verifies is answered with   *)
(* tokens only if its client_id and its redirect_uri equal, character by   *)
(* character, the ones in the grant.                                       *)
ExactMatch ==
  IsTokenResponse(req) /\ CodeVerified(req) =>
    /\ StrictEq(Get(ClaimsOf(req.prompt.code), "client_id"), Str(req.prompt.client_id))
    /\ StrictEq(Get(ClaimsOf(req.prompt.code), "redirect_uri"), Str(req.prompt.redirect_uri))

(* verify_pkce_challenge was called in this request with the request's     *)
(* code_verifier and the grant's challenge and method, and returned        *)
(* valid = true                                                            *)
PkceChecked(r) ==
  \E i \in 1..(Len(r.messages) - 1) :
    /\ r.messages[i].role = "assistant"
    /\ r.messages[i].name = "verify_pkce_challenge"
    /\ r.messages[i].arguments =
         JsonStringify(Args(
           << Member("code_verifier", Str(r.prompt.code_verifier)),
              Member("code_challenge", Get(ClaimsOf(r.prompt.code), "code_challenge")),
              Member("code_challenge_method",
                     Get(ClaimsOf(r.prompt.code), "code_challenge_method")) >>))
    /\ r.messages[i + 1].content = JsonStringify(<< Member("valid", Bool(TRUE)) >>)

(* C5: a token request presenting a grant that verifies and carries a      *)
(* code_challenge is answered with tokens only if verify_pkce_challenge    *)
(* was run on the request's code_verifier against the grant's challenge    *)
(* and method and returned valid = true.                                   *)
PkceMandatory ==
  /\ IsTokenResponse(req)
  /\ CodeVerified(req)
  /\ Truthy(Get(ClaimsOf(req.prompt.code), "code_challenge"))
  => PkceChecked(req)

-----------------------------------------------------------------------------
(* src/routes/oidc.ts: requests served side by side.  The router's         *)
(* middleware sets the module-level issuer from the request's URL and the  *)
(* handler then awaits (the form, the engine); another request's           *)
(* middleware can run at any of these awaits.  signJwt reads the issuer    *)
(* when the request's tool call runs.                                      *)

RequestIds == { 1, 2 }

(* the host names under which the process is reached, ISSUER unset *)
RequestHosts == { "https://idp.example", "https://idp-2.example" }

ConcurrentInstants == { 0, 1000 }

(* router.use: setIssuer(getIssuer(ctx)); await next() *)
Middleware(r) ==
  /\ r \notin DOMAIN inflight
  /\ \E origin \in RequestHosts :
       /\ currentIssuer' = origin
       /\ inflight' = MapSet(inflight, r, [pc |-> "awaiting", origin |-> origin, token |-> ""])
  /\ UNCHANGED << tableVars, now, rnd, artifact, last, dbVars, reqVars, issued >>

(* the request's create_id_token tool call, after the engine answered *)
SignForRequest(r) ==
  /\ r \in DOMAIN inflight
  /\ inflight[r].pc = "awaiting"
  /\ \E args \in TamperIdTokenArgs :
       \E out \in { executeToolCall("create_id_token", args, now, currentIssuer, rnd) } :
         inflight' = MapSet(inflight, r, [ pc |-> "signed",
                                           origin |-> inflight[r].origin,
                                           token |-> Get(out.result, "id_token").s ])
  /\ UNCHANGED << tableVars, now, jwtVars, last, dbVars, reqVars, issued >>

(* the response is sent and the request is over *)
Complete(r) ==
  /\ r \in DOMAIN inflight
  /\ inflight[r].pc = "signed"
  /\ inflight' = MapDelete(inflight, r)
  /\ UNCHANGED << tableVars, now, jwtVars, last, dbVars, reqVars, issued >>

NextConcurrent ==
  \/ Tick(ConcurrentInstants)
  \/ \E r \in RequestIds : Middleware(r)
  \/ \E r \in RequestIds : SignForRequest(r)
  \/ \E r \in RequestIds : Complete(r)

SpecConcurrent == Init /\ [][NextConcurrent]_vars

(* C16: an artifact signed while serving a request carries as iss the      *)
(* origin of that request.                                                 *)
IssuerOfRequest ==
  \A r \in DOMAIN inflight :
    inflight[r].pc = "signed" =>
      Get(ClaimsOf(inflight[r].token), "iss") = Str(inflight[r].origin)

-----------------------------------------------------------------------------
(* The relying-party test client: GET / seals the session data into the    *)
(* oidc_session cookie, GET /callback opens the cookie the request carries *)
(* and exchanges the code at the token endpoint.                           *)

(* Deno.env.get(...) || default, with the variables unset *)
CLIENT_ID == "test-client-1"

CLIENT_SECRET == "test-secret-1"

SESSION_SECRET == "default-session-secret-change-me"

getRedirectUri == "http://localhost:3000/callback"

signData(data) ==
  encodeBase64Url(hmacSha256(TextEncode(SESSION_SECRET), TextEncode(data)))

(* the result of a codec call: it raised (throws), it returned null, or it *)
(* returned the value v                                                    *)
Raised == [throws |-> TRUE, null |-> FALSE, text |-> "", v |-> Undefined, obj |-> <<>>]

Nothing == [throws |-> FALSE, null |-> TRUE, text |-> "", v |-> Null, obj |-> <<>>]

Decoded(text) == [throws |-> FALSE, null |-> FALSE, text |-> text, v |-> Str(text), obj |-> <<>>]

Parsed(parsed) ==
  [throws |-> FALSE, null |-> parsed.v.t = "null", text |-> "", v |-> parsed.v, obj |-> parsed.obj]

(* decoder.decode(decodeBase64Url(data)); a throw of decodeBase64Url is    *)
(* handed to onThrow.  Bytes outside the alphabet of the model are never   *)
(* sealed by this client and decode to no text here.                       *)
DecodeData(decoded, onThrow) ==
  IF ~decoded.ok THEN onThrow
  ELSE IF IsText(decoded.bytes) THEN Decoded(TextDecode(decoded.bytes))
  ELSE Nothing

CheckData(parts, onThrow) ==
  IF Len(parts) # 2 THEN Nothing
  ELSE IF parts[2] # signData(parts[1]) THEN Nothing
  ELSE DecodeData(decodeBase64Url(parts[1]), onThrow)

(* the same without the try block around it *)
verifyAndDecodeDataUncaught(signedData) == CheckData(Split(signedData, "."), Raised)

(* the same without the comparison of the tag *)
verifyAndDecodeDataUnsigned(signedData) ==
  IF Len(Split(signedData, ".")) # 2 THEN Nothing
  ELSE DecodeData(decodeBase64Url(Split(signedData, ".")[1]), Nothing)

verifyAndDecodeData(signedData) == CheckData(Split(signedData, "."), Nothing)

(* the tag computed over the JSON text instead of the encoded payload *)
createSignedCookieOverJson(data) ==
  EncodeJson(data) \o "." \o signData(JsonStringify(data))

createSignedCookie(data) == EncodeJson(data) \o "." \o signData(EncodeJson(data))

(* if (!decoded) return null; then JSON.parse(decoded) in its own try *)
ParseData(decoded) ==
  IF decoded.throws THEN Raised
  ELSE IF decoded.null \/ decoded.text = "" THEN Nothing
  ELSE IF ~JsonParse(decoded.text).ok THEN Nothing
  ELSE Parsed(JsonParse(decoded.text))

parseSignedCookie(cookie) == ParseData(verifyAndDecodeData(cookie))

(* crypto.randomUUID(): the draw number seed as a version 4 UUID *)
randomUUID(seed) == "00000000-0000-4000-8000-00000000000" \o NumToStr(seed)

(* String.prototype.trim and startsWith, on the text of a Cookie header *)
RECURSIVE TrimStart(_)
TrimStart(s) == IF Len(s) > 0 /\ CharAt(s, 1) = " " THEN TrimStart(SubSeq(s, 2, Len(s))) ELSE s

RECURSIVE TrimEnd(_)
TrimEnd(s) ==
  IF Len(s) > 0 /\ CharAt(s, Len(s)) = " " THEN TrimEnd(SubSeq(s, 1, Len(s) - 1)) ELSE s

StartsWith(s, prefix) == Len(s) >= Len(prefix) /\ SubSeq(s, 1, Len(prefix)) = prefix

(* cookieHeader.split(";").map(c => c.trim()).find(c =>                    *)
(* c.startsWith("oidc_session="))?.slice("oidc_session=".length); "" when  *)
(* no cookie of that name is found                                         *)
SessionCookieOf(cookieHeader) ==
  LET cookies == [ i \in DOMAIN Split(cookieHeader, ";") |->
                     TrimEnd(TrimStart(Split(cookieHeader, ";")[i])) ]
      hits == { i \in DOMAIN cookies : StartsWith(cookies[i], "oidc_session=") }
  IN  IF hits = {} THEN ""
      ELSE SubSeq(cookies[CHOOSE i \in hits : \A j \in hits : i <= j],
                  Len("oidc_session=") + 1,
                  Len(cookies[CHOOSE i \in hits : \A j \in hits : i <= j]))

(* what GET /callback answers: the status, whether the token request was   *)
(* sent, and the form it carried                                           *)
Answered(status, page) == [status |-> status, page |-> page, sent |-> FALSE, form |-> <<>>]

(* the token request; the status follows what the token endpoint did:      *)
(* tokens, an error body, or a failed fetch                                *)
Exchanged(code, session, idp) ==
  [ status |-> IF idp = "fails" THEN 500 ELSE 200,
    page |-> idp,
    sent |-> TRUE,
    form |-> << Member("grant_type", Str("authorization_code")),
                Member("code", Str(code)),
                Member("redirect_uri", Get(session, "redirectUri")),
                Member("client_id", Str(CLIENT_ID)),
                Member("client_secret", Str(CLIENT_SECRET)),
                Member("code_verifier", Get(session, "verifier")) >> ]

(* a handler that does not compare the state *)
WithSessionAnyState(query, session, idp) ==
  IF session.throws THEN Answered(500, "Internal Server Error")
  ELSE IF ~Truthy(session.v) THEN Answered(400, "Invalid Session")
  ELSE Exchanged(query.code, session.obj, idp)

WithSession(query, session, idp) ==
  IF session.throws THEN Answered(500, "Internal Server Error")
  ELSE IF ~Truthy(session.v) THEN Answered(400, "Invalid Session")
  ELSE IF ~StrictEq(Get(session.obj, "state"), Str(query.state))
       THEN Answered(400, "State Mismatch")
  ELSE Exchanged(query.code, session.obj, idp)

(* router.get("/callback"): a query parameter that is absent reads as ""   *)
callback(query, cookieHeader, idp) ==
  IF query.error # "" THEN Answered(200, "Authentication Error")
  ELSE IF query.code = "" \/ query.state = "" THEN Answered(400, "Missing code or state")
  ELSE IF SessionCookieOf(cookieHeader) = "" THEN Answered(400, "Session Cookie Not Found")
  ELSE WithSession(query, parseSignedCookie(SessionCookieOf(cookieHeader)), idp)

(* The client as a state machine: a browser starts a login, and callbacks  *)
(* arrive carrying the cookie as it was set, an altered copy of it, a      *)
(* string that was never sealed, or no cookie at all, while the clock runs *)

ClientInstants == { 0, 600000, 601000 }

(* GET /: state, nonce and the PKCE verifier are drawn, the session data   *)
(* is sealed into the cookie the browser keeps                             *)
StartLogin ==
  /\ last = NoCall
  /\ rnd < MaxRandom
  /\ \E sessionData \in
         { << Member("state", Str(randomUUID(2 * rnd))),
              Member("verifier", Str(generateRandomString(32, rnd))),
              Member("nonce", Str(randomUUID(2 * rnd + 1))),
              Member("redirectUri", Str(getRedirectUri)),
              Member("createdAt", Num(now)) >> } :
       /\ artifact' = createSignedCookie(sessionData)
       /\ issued' = [by |-> "GET /", of |-> sessionData]
       /\ last' = [op |-> "GET /", maxAge |-> 600]
  /\ rnd' = rnd + 1
  /\ UNCHANGED << tableVars, now, currentIssuer, dbVars, reqVars, inflight >>

(* the query strings of a callback for the login that was started *)
CallbackQueries ==
  { [code |-> c, state |-> st, error |-> e] :
      c \in { "code-1", "" },
      st \in { Get(issued.of, "state").s, "other-state", "" },
      e \in { "", "access_denied" } }

(* what the token endpoint does with the token request *)
IdpOutcomes == { "tokens", "error", "fails" }

CallbackCall(op, query, cookieHeader, idp) ==
  [ op |-> op,
    query |-> query,
    cookie |-> SessionCookieOf(cookieHeader),
    answer |-> callback(query, cookieHeader, idp) ]

(* the callback with the cookie as it was set, whether or not the browser  *)
(* would still send it                                                     *)
Callback ==
  /\ last = NoCall
  /\ artifact # ""
  /\ \E query \in CallbackQueries, idp \in IdpOutcomes :
       \E cookieHeader \in { "oidc_session=" \o artifact,
                             "theme=dark; oidc_session=" \o artifact \o " ",
                             "theme=dark", "oidc_session=", "" } :
         last' = CallbackCall("callback", query, cookieHeader, idp)
  /\ UNCHANGED << tableVars, now, jwtVars, dbVars, reqVars, sideVars >>

(* the callback with one character of the cookie replaced *)
CallbackTampered ==
  /\ last = NoCall
  /\ artifact # ""
  /\ \E pos \in 1..Len(artifact), e \in { "", "access_denied" } :
       \E c \in TamperChars(CharAt(artifact, pos)) :
         last' = (CallbackCall("tampered",
                               [ code |-> "code-1",
                                 state |-> Get(issued.of, "state").s,
                                 error |-> e ],
                               "oidc_session=" \o Tamper(artifact, pos, c), "tokens")
                    @@ [base |-> artifact, pos |-> pos])
  /\ UNCHANGED << tableVars, now, jwtVars, dbVars, reqVars, sideVars >>

(* session data an attacker would like the client to use *)
ForgedSession ==
  << Member("state", Str("other-state")),
     Member("verifier", Str("verifierXYZ")),
     Member("nonce", Str("n1")),
     Member("redirectUri", Str("https://rp/cb")),
     Member("createdAt", Num(0)) >>

(* strings that were never sealed by this client: tagged under another     *)
(* secret, with the tag missing, padded or computed over the JSON text,    *)
(* with the wrong number of segments, or tagged correctly over a payload   *)
(* that is not base64url, not JSON, empty, or JSON null                    *)
ForgedCapsules ==
  { EncodeJson(ForgedSession) \o "." \o
      SignatureB64("attacker-secret", EncodeJson(ForgedSession)),
    EncodeJson(ForgedSession) \o ".",
    EncodeJson(ForgedSession),
    EncodeJson(ForgedSession) \o "." \o
      encodeBase64UrlPadded(hmacSha256(TextEncode(SESSION_SECRET),
                                       TextEncode(EncodeJson(ForgedSession)))),
    createSignedCookieOverJson(ForgedSession),
    createSignedCookie(ForgedSession) \o ".x",
    "x." \o createSignedCookie(ForgedSession),
    "!!!." \o signData("!!!"),
    "e30x." \o signData("e30x"),
    "." \o signData(""),
    "bnVsbA." \o signData("bnVsbA"),
    "a.b", "a.b.c", "." }

CallbackForged ==
  /\ last = NoCall
  /\ \E f \in ForgedCapsules, e \in { "", "access_denied" } :
       last' = CallbackCall("forged",
                            [code |-> "code-1", state |-> "other-state", error |-> e],
                            "oidc_session=" \o f, "tokens")
  /\ UNCHANGED << tableVars, now, jwtVars, dbVars, reqVars, sideVars >>

NextClient ==
  \/ Tick(ClientInstants)
  \/ StartLogin
  \/ Callback
  \/ CallbackTampered
  \/ CallbackForged
  \/ Return

SpecClient == Init /\ [][NextClient]_vars

IsCallback == last.op \in { "callback", "tampered", "forged" }

(* the capsule has two segments and its second is the tag of its first     *)
(* under the session secret                                                *)
WellTagged(capsule) ==
  /\ Len(Split(capsule, ".")) = 2
  /\ Split(capsule, ".")[2] = SignatureB64(SESSION_SECRET, Split(capsule, ".")[1])

(* C21: the callback sends a token request only when the capsule's tag is  *)
(* the HMAC of its payload segment under the session secret; a capsule     *)
(* with an altered payload or an altered tag is answered with status 400   *)
(* and no token request is made.                                           *)
CapsuleRejected ==
  /\ IsCallback /\ last.answer.sent => WellTagged(last.cookie)
  /\ last.op = "tampered" => last.answer.status = 400 /\ ~last.answer.sent

(* C21, as the code has it: no token request is made for a capsule whose   *)
(* tag is not the HMAC of its payload segment or that was altered; the     *)
(* answer to an altered capsule has status 400 when the callback carries   *)
(* no error parameter, and is the error page with status 200, given before *)
(* the cookie is read, when it carries one.                                *)
CapsuleChecked ==
  /\ IsCallback /\ last.answer.sent => WellTagged(last.cookie)
  /\ last.op = "tampered" =>
       /\ ~WellTagged(last.cookie)
       /\ ~last.answer.sent
       /\ last.answer.status = IF last.query.error = "" THEN 400 ELSE 200

(* a character of the payload segment of a cookie was replaced by another  *)
(* base64url character, after the clock has moved, and the callback, which *)
(* carried the state of the login, answered 400 without a token request    *)
CapsuleWitness ==
  /\ last.op = "tampered"
  /\ now > 0
  /\ last.pos < Len(Split(last.base, ".")[1])
  /\ CharAt(last.cookie, last.pos) \in { "A", "Q" }
  /\ last.query.error = ""
  /\ last.answer.status = 400
  /\ ~last.answer.sent

(* C22: a correctly signed capsule whose createdAt is more than 600        *)
(* seconds before the callback is rejected, whether or not the browser     *)
(* still presents the cookie.                                              *)
StaleCapsuleRejected ==
  /\ IsCallback
  /\ WellTagged(last.cookie)
  /\ last.cookie = artifact
  /\ now - Get(issued.of, "createdAt").n > 600 * 1000
  => ~last.answer.sent

-----------------------------------------------------------------------------
(* The two codecs called directly: session payloads are sealed and opened, *)
(* and both opening functions are applied to arbitrary strings             *)

(* session payloads of the shape GET / builds: as a login draws them, with *)
(* a later creation instant, with characters of a query string in the      *)
(* redirect URI, and with empty strings                                    *)
SessionPayloads ==
  { << Member("state", Str(randomUUID(st))),
       Member("verifier", Str(v)),
       Member("nonce", Str(randomUUID(3))),
       Member("redirectUri", Str(uri)),
       Member("createdAt", Num(at)) >> :
      st \in { 0, 1 },
      v \in { generateRandomString(32, 1), "" },
      uri \in { getRedirectUri, "https://rp.example/cb?a=1&b=x y" },
      at \in { 0, 601000 } }

SealPayload ==
  /\ last = NoCall
  /\ \E p \in SessionPayloads :
       /\ artifact' = createSignedCookie(p)
       /\ issued' = [by |-> "createSignedCookie", of |-> p]
       /\ last' = [op |-> "createSignedCookie", payload |-> p]
  /\ UNCHANGED << tableVars, now, currentIssuer, rnd, dbVars, reqVars, inflight >>

(* parseSignedCookie on the string createSignedCookie returned *)
ParseSealed ==
  /\ last = NoCall
  /\ issued.by = "createSignedCookie"
  /\ last' = [ op |-> "parseSignedCookie",
               input |-> artifact,
               result |-> parseSignedCookie(artifact) ]
  /\ UNCHANGED << tableVars, now, jwtVars, dbVars, reqVars, sideVars >>

(* the strings handed to both functions: never-sealed capsules and        *)
(* never-signed tokens, the sealed capsule, and the sealed capsule with a  *)
(* separator written over one of its characters                            *)
CodecInputs ==
  ForgedCapsules \cup Forged \cup { artifact }
    \cup { Tamper(artifact, pos, ".") : pos \in 1..Len(artifact) }

(* verifyAndDecodeJwt(input) and parseSignedCookie(input) *)
OpenInput ==
  /\ last = NoCall
  /\ \E input \in CodecInputs :
       last' = [ op |-> "open",
                 input |-> input,
                 jwt |-> verifyAndDecodeJwt(input, now),
                 result |-> parseSignedCookie(input) ]
  /\ UNCHANGED << tableVars, now, jwtVars, dbVars, reqVars, sideVars >>

NextCodec ==
  \/ SealPayload
  \/ ParseSealed
  \/ OpenInput
  \/ Return

SpecCodec == Init /\ [][NextCodec]_vars

(* C23: for every session payload p, parseSignedCookie applied to          *)
(* createSignedCookie(p) under the same session secret returns an object   *)
(* equal to p.                                                             *)
SealedOpens ==
  last.op = "parseSignedCookie" =>
    /\ ~last.result.throws
    /\ ~last.result.null
    /\ last.result.v = ObjVal(issued.of)

(* a payload with a creation instant after 0, an empty verifier and a      *)
(* redirect URI that carries a query string came back equal                *)
SealedOpensWitness ==
  /\ last.op = "parseSignedCookie"
  /\ Get(issued.of, "createdAt").n > 0
  /\ Get(issued.of, "verifier") = Str("")
  /\ Get(issued.of, "redirectUri") # Str(getRedirectUri)
  /\ last.result.obj = issued.of

(* C24: verifyAndDecodeJwt rejects every string that does not split on "." *)
(* into exactly three segments, parseSignedCookie every string that does   *)
(* not split into exactly two, and neither raises an exception for any     *)
(* string: what is thrown inside them is answered as a rejection.          *)
MalformedRejected ==
  last.op = "open" =>
    /\ last.jwt.at # "raised"
    /\ ~last.result.throws
    /\ Len(Split(last.input, ".")) # 3 => ~last.jwt.ok
    /\ Len(Split(last.input, ".")) # 2 => last.result.null

(* a string whose first segment carries a correct tag as its second but is *)
(* not base64url was rejected by both functions, by parseSignedCookie      *)
(* through the exception decodeBase64Url throws                            *)
MalformedWitness ==
  /\ last.op = "open"
  /\ Len(Split(last.input, ".")) = 2
  /\ WellTagged(last.input)
  /\ ~decodeBase64Url(Split(last.input, ".")[1]).ok
  /\ last.result.null
  /\ ~last.jwt.ok

-----------------------------------------------------------------------------
(* src/llm/openai.ts, the registry-backed code path: token exchanges       *)
(* served side by side.  callLLM awaits the engine between the tool rounds *)
(* of a request, and another request's tool round can run at any of these  *)
(* awaits.  The engine follows the token prompt: it looks the code up,     *)
(* goes on only with a code that is found and not used, and marks it used  *)
(* in a later round.                                                       *)

ExchangeInstants == { 0, 100 }

CodeOf(args) == << Member("code", Get(args, "code")) >>

(* POST /token: the request is waiting for the engine's first answer *)
BeginExchange(r) ==
  /\ r \notin DOMAIN inflight
  /\ \E args \in CodeArgs :
       inflight' = MapSet(inflight, r, [pc |-> "awaiting", args |-> CodeOf(args),
                                        seen |-> <<>>])
  /\ UNCHANGED << tableVars, now, jwtVars, last, dbVars, reqVars, issued >>

(* the tool round with get_authorization_code *)
LookupCode(r) ==
  /\ r \in DOMAIN inflight
  /\ inflight[r].pc = "awaiting"
  /\ \E out \in { executeDbToolCall("get_authorization_code", inflight[r].args, now,
                                    authorizationCodes, accessTokens) } :
       inflight' = MapSet(inflight, r, [pc |-> "looked", args |-> inflight[r].args,
                                        seen |-> out.result])
  /\ UNCHANGED << tableVars, now, jwtVars, last, dbVars, reqVars, issued >>

SeenUnused(seen) ==
  /\ Truthy(Get(seen, "found"))
  /\ Get(Get(seen, "authorization_code").o, "used") = Bool(FALSE)

(* the tool round with mark_authorization_code_used, for a code that was   *)
(* seen unused                                                             *)
MarkCode(r) ==
  /\ r \in DOMAIN inflight
  /\ inflight[r].pc = "looked"
  /\ SeenUnused(inflight[r].seen)
  /\ \E out \in { executeDbToolCall("mark_authorization_code_used", inflight[r].args, now,
                                    authorizationCodes, accessTokens) } :
       /\ authorizationCodes' = out.authorizationCodes
       /\ accessTokens' = out.accessTokens
  /\ inflight' = MapSet(inflight, r, [pc |-> "marked", args |-> inflight[r].args,
                                      seen |-> inflight[r].seen])
  /\ UNCHANGED << tableVars, now, jwtVars, last, refreshTokens, reqVars, issued >>

(* the engine answers with an error after the lookup *)
RefuseCode(r) ==
  /\ r \in DOMAIN inflight
  /\ inflight[r].pc = "looked"
  /\ ~SeenUnused(inflight[r].seen)
  /\ inflight' = MapSet(inflight, r, [pc |-> "refused", args |-> inflight[r].args,
                                      seen |-> inflight[r].seen])
  /\ UNCHANGED << tableVars, now, jwtVars, last, dbVars, reqVars, issued >>

(* the response is sent and the request is over *)
EndExchange(r) ==
  /\ r \in DOMAIN inflight
  /\ inflight[r].pc \in { "marked", "refused" }
  /\ inflight' = MapDelete(inflight, r)
  /\ UNCHANGED << tableVars, now, jwtVars, last, dbVars, reqVars, issued >>

NextExchange ==
  \/ Tick(ExchangeInstants)
  \/ DbToolCall("save_authorization_code", CodeArgs)
  \/ Return
  \/ \E r \in RequestIds : BeginExchange(r)
  \/ \E r \in RequestIds : LookupCode(r)
  \/ \E r \in RequestIds : MarkCode(r)
  \/ \E r \in RequestIds : RefuseCode(r)
  \/ \E r \in RequestIds : EndExchange(r)

SpecExchange == Init /\ [][NextExchange]_vars

(* the requests that have seen the code unused and have not marked it yet *)
BetweenLookupAndMark ==
  { r \in DOMAIN inflight : inflight[r].pc = "looked" /\ SeenUnused(inflight[r].seen) }

(* C26: when two token exchanges presenting the same code run side by      *)
(* side, at most one of them observes used = false from                    *)
(* get_authorization_code before the code is marked used: no other         *)
(* request's lookup comes between a request's lookup and its mark.         *)
LookupMarkAtomic ==
  \A r1, r2 \in BetweenLookupAndMark : inflight[r1].args = inflight[r2].args => r1 = r2

-----------------------------------------------------------------------------
(* callLLM for each operation: the engine is offered the operation's tools *)
(* and answers with a tool call; its answer is an input of the program and *)
(* may name any tool                                                       *)

Operations == { "authorization", "login_page", "authenticate", "token", "userinfo" }

toolsByOperation ==
  [ operation \in Operations |->
      CASE operation = "authorization" -> { "get_client" }
        [] operation = "login_page" -> {}
        [] operation = "authenticate" ->
             { "validate_user_credentials", "create_authorization_code" }
        [] operation = "token" -> { TokenTools[i] : i \in DOMAIN TokenTools }
        [] operation = "userinfo" -> { "get_access_token", "get_user" } ]

(* one turn of the loop in callLLM: while (hasTools && tool_calls) the     *)
(* calls go to processToolCalls; without tools the loop is not entered     *)
(* and the maps stay as they are                                           *)
LoopTurn(hasTools, out, codes, tokens) ==
  IF hasTools THEN [ran |-> ~out.throws, out |-> out]
  ELSE [ ran |-> FALSE,
         out |-> [ throws |-> FALSE, content |-> "",
                   authorizationCodes |-> codes, accessTokens |-> tokens ] ]

(* callLLM(operation, ...) up to the results of the engine's tool call *)
CallLLM ==
  /\ last = NoCall
  /\ \E operation \in Operations, name \in ToolCallNames,
        arguments \in ToolCallArguments :
       /\ name \in RandomTools => rnd < MaxRandom
       /\ \E turn \in { LoopTurn(toolsByOperation[operation] # {},
                                 processToolCall([name |-> name, arguments |-> arguments],
                                                 now, currentIssuer, rnd + 1,
                                                 authorizationCodes, accessTokens),
                                 authorizationCodes, accessTokens) } :
            /\ authorizationCodes' = turn.out.authorizationCodes
            /\ accessTokens' = turn.out.accessTokens
            /\ last' = [ op |-> "callLLM", operation |-> operation, name |-> name,
                         arguments |-> arguments, ran |-> turn.ran, out |-> turn.out ]
            /\ rnd' = IF turn.ran /\ name \in RandomTools THEN rnd + 1 ELSE rnd
  /\ UNCHANGED << tableVars, now, currentIssuer, artifact, refreshTokens, reqVars, sideVars >>

NextOperations ==
  \/ CallLLM
  \/ Return

SpecOperations == Init /\ [][NextOperations]_vars

(* C29: while an operation is being served, only the tools listed for it   *)
(* in toolsByOperation are executed: a tool call of the engine that names  *)
(* a tool outside the operation's set is not executed.                     *)
OnlyListedToolsRun ==
  last.op = "callLLM" /\ last.ran => last.name \in toolsByOperation[last.operation]

-----------------------------------------------------------------------------
(* POST /authorize/callback and processAuthentication: the login form is   *)
(* put to the engine with the tools of the authenticate operation; the     *)
(* engine's tool calls and its final answer are inputs of the program.     *)

MaxRounds == 2

(* the login forms: a user with the right password, with a wrong one, and  *)
(* a user that does not exist                                              *)
LoginForms ==
  { << Member("username", Str(u[1])),
       Member("password", Str(u[2])),
       Member("client_id", Str("test-client-1")),
       Member("redirect_uri", Str(back[1])),
       Member("scope", Str("openid")),
       Member("state", Str(back[2])) >> :
      u \in { << "user1", "password1" >>, << "user1", "wrong" >>, << "nobody", "" >> },
      back \in { << "https://rp/cb", "st1" >>,
                 << "https://rp/cb?state=old&x=1&state=older", "a b&c=d" >>,
                 << "", "st1" >> } }

(* the tool calls the engine can answer with: the request's credentials    *)
(* put to validate_user_credentials, and create_authorization_code for     *)
(* the request's client with a user id of the engine's choice              *)
AuthToolCalls(params) ==
  { ToolMove("validate_user_credentials",
             << Member("username", Get(params, "username")),
                Member("password", Get(params, "password")) >>) }
  \cup
  { ToolMove("create_authorization_code",
             << Member("client_id", Get(params, "client_id")),
                Member("user_id", Str(id)),
                Member("redirect_uri", Get(params, "redirect_uri")),
                Member("scope", Get(params, "scope")) >>) :
      id \in { "user1", "admin" } }

(* the final answers of authenticatePrompt, and a text that is not JSON *)
AuthAnswers ==
  { JsonStringify(<< Member("success", Bool(TRUE)), Member("code_created", Bool(TRUE)) >>),
    JsonStringify(<< Member("success", Bool(FALSE)),
                     Member("error", Str("invalid_credentials")),
                     Member("error_description", Str("Invalid username or password")) >>),
    "Sorry", "null", "" }

AuthFailure(error, description) ==
  << Member("success", Bool(FALSE)),
     Member("error", error),
     Member("error_description", description) >>

(* URLSearchParams: the application/x-www-form-urlencoded serializer keeps *)
(* letters, digits and * - . _ , writes a space as + and every other       *)
(* character as %XX                                                        *)
HexDigits == "0123456789ABCDEF"

FormEncodeChar(c) ==
  IF c \in B64Chars \/ c \in { "*", "." } THEN c
  ELSE IF c = " " THEN "+"
  ELSE "%" \o CharAt(HexDigits, (CharCode[c] \div 16) + 1)
           \o CharAt(HexDigits, (CharCode[c] % 16) + 1)

RECURSIVE ConcatRange(_, _, _)
ConcatRange(pieces, lo, hi) ==
  IF lo > hi THEN ""
  ELSE IF lo = hi THEN pieces[lo]
  ELSE ConcatRange(pieces, lo, (lo + hi) \div 2)
         \o ConcatRange(pieces, ((lo + hi) \div 2) + 1, hi)

FormEncode(s) == ConcatRange([ i \in 1..Len(s) |-> FormEncodeChar(CharAt(s, i)) ], 1, Len(s))

IsHex(c) == \E d \in 1..16 : CharAt(HexDigits, d) = c

HexVal(c) == (CHOOSE d \in 1..16 : CharAt(HexDigits, d) = c) - 1

EscapeAt(s, i) ==
  /\ i >= 1 /\ i + 2 <= Len(s)
  /\ CharAt(s, i) = "%" /\ IsHex(CharAt(s, i + 1)) /\ IsHex(CharAt(s, i + 2))
  /\ 16 * HexVal(CharAt(s, i + 1)) + HexVal(CharAt(s, i + 2)) \in TextCodes

(* the parser's decoding: + is a space, %XX is the character with that code *)
FormDecodeAt(s, i) ==
  IF EscapeAt(s, i - 1) \/ EscapeAt(s, i - 2) THEN ""
  ELSE IF EscapeAt(s, i)
  THEN CodeChar[16 * HexVal(CharAt(s, i + 1)) + HexVal(CharAt(s, i + 2))]
  ELSE IF CharAt(s, i) = "+" THEN " "
  ELSE CharAt(s, i)

FormDecode(s) == ConcatRange([ i \in 1..Len(s) |-> FormDecodeAt(s, i) ], 1, Len(s))

(* new URL(text): an absolute http(s) URL parses, anything else throws;    *)
(* the URL is kept as the text before the query and the decoded pairs      *)
IsUrl(text) ==
  \/ StartsWith(text, "https://") /\ Len(text) > Len("https://")
  \/ StartsWith(text, "http://") /\ Len(text) > Len("http://")

QueryPair(text) ==
  IF IndexOfFrom(text, "=", 1) = 0 THEN << FormDecode(text), "" >>
  ELSE << FormDecode(SubSeq(text, 1, IndexOfFrom(text, "=", 1) - 1)),
          FormDecode(SubSeq(text, IndexOfFrom(text, "=", 1) + 1, Len(text))) >>

QueryPairs(query) ==
  LET parts == SelectSeq(Split(query, "&"), LAMBDA part : part # "")
  IN  [ i \in 1..Len(parts) |-> QueryPair(parts[i]) ]

UrlBase(text) ==
  IF IndexOfFrom(text, "?", 1) = 0 THEN text
  ELSE SubSeq(text, 1, IndexOfFrom(text, "?", 1) - 1)

searchParams(text) ==
  IF IndexOfFrom(text, "?", 1) = 0 THEN <<>>
  ELSE QueryPairs(SubSeq(text, IndexOfFrom(text, "?", 1) + 1, Len(text)))

(* URLSearchParams.set: the first pair of that name takes the value and    *)
(* the later ones go; a name that is not there yet is appended             *)
SearchParamsSet(pairs, name, value) ==
  LET hits == { i \in 1..Len(pairs) : pairs[i][1] = name }
  IN  IF hits = {} THEN Append(pairs, << name, value >>)
      ELSE LET first == CHOOSE i \in hits : \A j \in hits : i <= j
               kept == [ i \in 1..Len(pairs) |->
                           IF i = first THEN << TRUE, << name, value >> >>
                           ELSE << i \notin hits, pairs[i] >> ]
           IN  [ i \in 1..Len(SelectSeq(kept, LAMBDA k : k[1])) |->
                   SelectSeq(kept, LAMBDA k : k[1])[i][2] ]

(* URLSearchParams.get: the value of the first pair of that name *)
SearchParamsGet(pairs, name) ==
  LET hits == { i \in 1..Len(pairs) : pairs[i][1] = name }
  IN  IF hits = {} THEN [found |-> FALSE, value |-> ""]
      ELSE [found |-> TRUE,
            value |-> pairs[CHOOSE i \in hits : \A j \in hits : i <= j][2]]

UrlToString(base, pairs) ==
  IF Len(pairs) = 0 THEN base
  ELSE base \o "?" \o
       ConcatRange([ i \in 1..Len(pairs) |->
                       (IF i = 1 THEN "" ELSE "&")
                         \o FormEncode(pairs[i][1]) \o "=" \o FormEncode(pairs[i][2]) ],
                   1, Len(pairs))

(* new URL(redirect_uri) with code and state set, written out again *)
RedirectUrl(params, code) ==
  UrlToString(UrlBase(Get(params, "redirect_uri").s),
              SearchParamsSet(SearchParamsSet(searchParams(Get(params, "redirect_uri").s),
                                              "code", code.s),
                              "state", Get(params, "state").s))

(* processAuthentication after callLLM returned: the engine's answer is    *)
(* parsed, and the code is taken from the collected tool results           *)
AuthResult(params, llmResult, toolResults) ==
  IF ~llmResult.ok
  THEN AuthFailure(Str("server_error"), Str("Failed to parse authentication response"))
  ELSE IF ~Truthy(Get(llmResult.obj, "success"))
  THEN AuthFailure(OrElse(Get(llmResult.obj, "error"), Str("invalid_credentials")),
                   OrElse(Get(llmResult.obj, "error_description"),
                          Str("Authentication failed")))
  ELSE IF ~Truthy(Get(ResultOf(toolResults, "create_authorization_code"), "code"))
  THEN AuthFailure(Str("server_error"), Str("Failed to generate authorization code"))
  ELSE << Member("success", Bool(TRUE)),
          Member("redirect_url",
                 Str(RedirectUrl(params,
                       Get(ResultOf(toolResults, "create_authorization_code"), "code")))) >>

(* the two places where processAuthentication throws instead of returning: *)
(* reading .success of an answer that parsed to null, and new URL() of a   *)
(* redirect_uri that is not a URL                                          *)
AuthRaises(params, llmResult, toolResults) ==
  /\ llmResult.ok
  /\ \/ llmResult.v.t = "null"
     \/ /\ Truthy(Get(llmResult.obj, "success"))
        /\ Truthy(Get(ResultOf(toolResults, "create_authorization_code"), "code"))
        /\ ~IsUrl(Get(params, "redirect_uri").s)

processAuthentication(params, response, toolResults) ==
  IF AuthRaises(params, JsonParse(response), toolResults)
  THEN [throws |-> TRUE, result |-> <<>>]
  ELSE [throws |-> FALSE, result |-> AuthResult(params, JsonParse(response), toolResults)]

(* the route: the redirect on success, the login page again otherwise *)
AuthResponse(r, out) ==
  IF out.throws THEN Responded(r, 500, ServerError)
  ELSE Responded(r, IF Truthy(Get(out.result, "success")) THEN 302 ELSE 200, out.result)

(* POST /authorize/callback up to the first request to the engine *)
AuthenticateRequest ==
  /\ last = NoCall
  /\ req = Idle
  /\ \E origin \in RequestOrigins : currentIssuer' = origin
  /\ \E form \in LoginForms :
       req' = [ pc |-> "authenticate", params |-> form, prompt |-> form,
                messages |-> <<>>, toolResults |-> <<>> ]
  /\ last' = [op |-> "authenticate"]
  /\ UNCHANGED << tableVars, now, rnd, artifact, dbVars, redemptions, sideVars >>

(* a round of callLLM in which the engine answers with a tool call *)
AuthToolRound ==
  /\ req.pc = "authenticate"
  /\ Len(req.messages) < 2 * MaxRounds
  /\ \E toolCall \in AuthToolCalls(req.params) :
       /\ toolCall.name \in RandomTools => rnd < MaxRandom
       /\ \E out \in { processToolCall(toolCall, now, currentIssuer, rnd + 1,
                                       authorizationCodes, accessTokens) } :
            /\ req' = AfterToolCall(req, toolCall, out)
            /\ rnd' = IF toolCall.name \in RandomTools THEN rnd + 1 ELSE rnd
            /\ authorizationCodes' = out.authorizationCodes
            /\ accessTokens' = out.accessTokens
  /\ UNCHANGED << tableVars, now, currentIssuer, artifact, last, refreshTokens, redemptions, sideVars >>

(* the round in which the engine gives its final answer *)
AuthFinalAnswer ==
  /\ req.pc = "authenticate"
  /\ \E content \in AuthAnswers :
       \E out \in { processAuthentication(req.params, content, req.toolResults) } :
         /\ req' = AuthResponse(req, out)
         /\ last' = [ op |-> "processAuthentication", response |-> content,
                      throws |-> out.throws, result |-> out.result ]
  /\ UNCHANGED << tableVars, now, jwtVars, dbVars, redemptions, sideVars >>

NextAuthenticate ==
  \/ AuthenticateRequest
  \/ AuthToolRound
  \/ AuthFinalAnswer
  \/ Respond

SpecAuthenticate == Init /\ [][NextAuthenticate]_vars

(* validate_user_credentials answered valid = true in this request for the *)
(* user with the given id                                                  *)
ValidatedAs(r, userId) ==
  \E i \in 1..(Len(r.messages) - 1) :
    /\ r.messages[i].role = "assistant"
    /\ r.messages[i].name = "validate_user_credentials"
    /\ Truthy(Get(JsonParse(r.messages[i + 1].content).obj, "valid"))
    /\ Get(Get(JsonParse(r.messages[i + 1].content).obj, "user").o, "user_id") = userId

(* C30: processAuthentication returns success = true only if               *)
(* validate_user_credentials returned valid = true during the request and  *)
(* the grant in the redirect carries the user_id of the validated user.    *)
GrantForValidatedUser ==
  req.pc = "done" /\ HasKey(req.params, "username")
    /\ Get(req.body, "success") = Bool(TRUE) =>
      ValidatedAs(req, Get(ClaimsOf(Get(ResultOf(req.toolResults,
                                                 "create_authorization_code"),
                                        "code").s), "user_id"))

(* the codes that create_authorization_code returned during the request,  *)
(* in the order of the calls                                               *)
CodesReturned(r) ==
  LET code(i) == Get(JsonParse(r.messages[i + 1].content).obj, "code")
      calls == SelectSeq([ i \in 1..Len(r.messages) |-> i ],
                         LAMBDA i : /\ i < Len(r.messages)
                                    /\ r.messages[i].role = "assistant"
                                    /\ r.messages[i].name = "create_authorization_code"
                                    /\ Truthy(code(i)))
  IN  [ k \in 1..Len(calls) |-> code(calls[k]).s ]

SaysSuccess(response) ==
  JsonParse(response).ok /\ Truthy(Get(JsonParse(response).obj, "success"))

(* C31: processAuthentication returns success = true only if the final     *)
(* answer says success and a create_authorization_code call of the same    *)
(* request returned a code; the redirect URL then carries the code of the  *)
(* last such call and the state of the request; in every other case it     *)
(* returns success = false and no redirect URL.                            *)
AuthOutcome ==
  last.op = "processAuthentication" =>
    IF SaysSuccess(last.response) /\ Len(CodesReturned(req)) > 0
    THEN \/ last.throws
         \/ /\ Get(last.result, "success") = Bool(TRUE)
            /\ \E url \in { Get(last.result, "redirect_url").s } :
                 /\ UrlBase(url) = UrlBase(Get(req.params, "redirect_uri").s)
                 /\ SearchParamsGet(searchParams(url), "code")
                      = [ found |-> TRUE,
                          value |-> CodesReturned(req)[Len(CodesReturned(req))] ]
                 /\ SearchParamsGet(searchParams(url), "state")
                      = [ found |-> TRUE, value |-> Get(req.params, "state").s ]
    ELSE /\ ~last.throws
         /\ Get(last.result, "success") = Bool(FALSE)
         /\ ~HasKey(last.result, "redirect_url")

(* the same for every outcome in which processAuthentication returns *)
AuthOutcomeWhenReturned ==
  last.op = "processAuthentication" /\ ~last.throws =>
    IF SaysSuccess(last.response) /\ Len(CodesReturned(req)) > 0
    THEN /\ Get(last.result, "success") = Bool(TRUE)
         /\ \E url \in { Get(last.result, "redirect_url").s } :
              /\ SearchParamsGet(searchParams(url), "code")
                   = [ found |-> TRUE,
                       value |-> CodesReturned(req)[Len(CodesReturned(req))] ]
              /\ SearchParamsGet(searchParams(url), "state")
                   = [ found |-> TRUE, value |-> Get(req.params, "state").s ]
    ELSE /\ Get(last.result, "success") = Bool(FALSE)
         /\ ~HasKey(last.result, "redirect_url")

-----------------------------------------------------------------------------
(* main.ts: setInterval(() => db.cleanupExpiredTokens(), 60000).  The timer *)
(* is set when the module loads and belongs to no request: its callback is *)
(* run again and again, whenever the handler that is running has returned. *)

TimerFairness == SF_vars(CleanupExpiredTokens) /\ WF_vars(Return)

getRefreshToken(tokens, token) == MapGet(tokens, token)

GetAuthorizationCode ==
  /\ last = NoCall
  /\ \E c \in { "code1", "code2" } :
       last' = [op |-> "getAuthorizationCode", code |-> c,
                result |-> getAuthorizationCode(authorizationCodes, c)]
  /\ UNCHANGED << tableVars, now, jwtVars, dbVars, reqVars, sideVars >>

GetRefreshToken ==
  /\ last = NoCall
  /\ \E t \in { "r1", "r2" } :
       last' = [op |-> "getRefreshToken", token |-> t,
                result |-> getRefreshToken(refreshTokens, t)]
  /\ UNCHANGED << tableVars, now, jwtVars, dbVars, reqVars, sideVars >>

(* the clock passes the expiry of what was saved at 0 (1000) and of the    *)
(* refresh token (1100)                                                    *)
TimerInstants == { 0, 1100, 1200 }

NextTimer ==
  \/ Tick(TimerInstants)
  \/ DbToolCall("save_access_token", AccessTokenArgs)
  \/ DbToolCall("save_authorization_code", CodeArgs)
  \/ SaveRefreshToken
  \/ GetAccessToken
  \/ GetAuthorizationCode
  \/ GetRefreshToken
  \/ CleanupExpiredTokens
  \/ Return

SpecTimer == Init /\ [][NextTimer]_vars /\ TimerFairness

(* a record is stored under k whose expiry has passed *)
Overdue(m, k) == k \in DOMAIN m /\ ExpiresAtOf(m[k]) < now

(* C32: the sweep runs on its own timer whatever the request traffic, so   *)
(* every record whose expiry has passed is eventually removed from the     *)
(* registry, also when no request arrives any more.                        *)
ExpiredEventuallyRemoved ==
  /\ \A t \in TokenNames : Overdue(accessTokens, t) ~> ~Overdue(accessTokens, t)
  /\ Overdue(authorizationCodes, "code1") ~> ~Overdue(authorizationCodes, "code1")
  /\ Overdue(refreshTokens, "r1") ~> ~Overdue(refreshTokens, "r1")

(* a sweep has just removed an overdue record of each of the three maps *)
TimerWitness ==
  /\ last.op = "cleanupExpiredTokens"
  /\ \E t \in DOMAIN last.accessTokens :
       ExpiresAtOf(last.accessTokens[t]) < last.at /\ t \notin DOMAIN accessTokens
  /\ \E c \in DOMAIN last.authorizationCodes :
       ExpiresAtOf(last.authorizationCodes[c]) < last.at /\ c \notin DOMAIN authorizationCodes
  /\ \E r \in DOMAIN last.refreshTokens :
       ExpiresAtOf(last.refreshTokens[r]) < last.at /\ r \notin DOMAIN refreshTokens

(* what a sweep at instant ms may do to a map: records that expire later  *)
(* than ms stay as they are, nothing is added, and what goes had expired   *)
SweptOnlyExpired(before, after, ms) ==
  /\ DOMAIN after \subseteq DOMAIN before
  /\ \A k \in DOMAIN before :
       /\ ExpiresAtOf(before[k]) > ms => k \in DOMAIN after
       /\ k \in DOMAIN after => after[k] = before[k]
       /\ k \notin DOMAIN after => ExpiresAtOf(before[k]) <= ms

Lookups == { "getAccessToken", "getAuthorizationCode", "getRefreshToken" }

(* C33: cleanupExpiredTokens removes only expired entries of the three     *)
(* maps: every record with expires_at > now is still stored, unchanged,    *)
(* afterwards, and the client and user tables are untouched; the lookups   *)
(* getAccessToken, getAuthorizationCode and getRefreshToken neither remove *)
(* nor modify any record, expired or not.                                  *)
SweepFrame ==
  [][ /\ last'.op = "cleanupExpiredTokens" /\ last.op = "none" =>
           /\ SweptOnlyExpired(authorizationCodes, authorizationCodes', now)
           /\ SweptOnlyExpired(accessTokens, accessTokens', now)
           /\ SweptOnlyExpired(refreshTokens, refreshTokens', now)
           /\ clients' = clients /\ users' = users
      /\ last'.op \in Lookups /\ last.op = "none" =>
           /\ dbVars' = dbVars
           /\ clients' = clients /\ users' = users ]_vars

(* a sweep took an expired access token and an expired code, and left an   *)
(* access token that expires later and a refresh token that expires at    *)
(* that very instant                                                       *)
SweepFrameWitness ==
  /\ last.op = "cleanupExpiredTokens"
  /\ \E t \in DOMAIN last.accessTokens : t \notin DOMAIN accessTokens
  /\ \E c \in DOMAIN last.authorizationCodes : c \notin DOMAIN authorizationCodes
  /\ \E t \in DOMAIN accessTokens : ExpiresAtOf(accessTokens[t]) > last.at
  /\ \E r \in DOMAIN refreshTokens : ExpiresAtOf(refreshTokens[r]) = last.at

-----------------------------------------------------------------------------
(* src/llm/openai.ts: callOpenAIWithRetry.  One call of                    *)
(* openai.chat.completions.create is an attempt; it resolves with a        *)
(* completion or rejects with a thrown value.                              *)

MAX_RETRIES == 3

RETRY_DELAY_MS == 1000

(* calls are started while the clock is below this instant *)
RetryHorizon == 3000

toLowerCase(s) ==
  ConcatRange([ i \in 1..Len(s) |->
                  IF CharCode[CharAt(s, i)] \in 65..90
                  THEN CodeChar[CharCode[CharAt(s, i)] + 32]
                  ELSE CharAt(s, i) ],
              1, Len(s))

Includes(s, part) ==
  \E i \in 1..(Len(s) - Len(part) + 1) : SubSeq(s, i, i + Len(part) - 1) = part

RetryWords == { "connection", "dns", "network", "timeout", "econnrefused", "enotfound" }

isRetryableError(error) ==
  /\ error.isError
  /\ \E word \in RetryWords : Includes(toLowerCase(error.message), word)

(* a retry that looks at the attempt count only *)
RetryWhatever(error, attempt) == attempt < MAX_RETRIES

(* the test of the catch block *)
RetryAllowed(error, attempt) == isRetryableError(error) /\ attempt < MAX_RETRIES

(* what an attempt can throw: the errors of the OpenAI client for a        *)
(* failed connection, a failed name lookup, an unreachable network, a      *)
(* request that timed out, a gateway timeout and a refused key, and a      *)
(* thrown string; kind says what went wrong, message is all the code sees  *)
ThrownValues ==
  { [isError |-> TRUE, kind |-> "connection", message |-> "Connection error."],
    [isError |-> TRUE, kind |-> "dns",
     message |-> "getaddrinfo ENOTFOUND api.openai.com"],
    [isError |-> TRUE, kind |-> "network", message |-> "Network is unreachable"],
    [isError |-> TRUE, kind |-> "timeout", message |-> "Request timed out."],
    [isError |-> TRUE, kind |-> "timeout", message |-> "504 Gateway Timeout"],
    [isError |-> TRUE, kind |-> "other", message |-> "401 Incorrect API key provided"],
    [isError |-> FALSE, kind |-> "other", message |-> "network"] }

Completions == { "completion1", "completion2" }

NoOutcome == [throws |-> FALSE, response |-> "", error |-> <<>>]

(* the call is made: attempt = 1 *)
CallOpenAIWithRetry ==
  /\ last = NoCall
  /\ req = Idle
  /\ now < RetryHorizon
  /\ req' = [ pc |-> "create", attempt |-> 1, lastError |-> <<>>,
              attempts |-> <<>>, delays |-> <<>>, outcome |-> NoOutcome ]
  /\ last' = [op |-> "callOpenAIWithRetry", at |-> now]
  /\ UNCHANGED << tableVars, now, jwtVars, dbVars, redemptions, sideVars >>

(* a loop that keeps the completion and goes round again *)
CreateResolvesAndGoesOn ==
  /\ req.pc = "create"
  /\ \E completion \in Completions :
       req' = [ req EXCEPT
                  !.pc = IF req.attempt < MAX_RETRIES THEN "create" ELSE "done",
                  !.attempt = @ + 1,
                  !.attempts = Append(@, [ok |-> TRUE, response |-> completion,
                                          error |-> <<>>]),
                  !.outcome = [throws |-> FALSE, response |-> completion,
                               error |-> <<>>] ]
  /\ UNCHANGED << tableVars, now, jwtVars, last, dbVars, redemptions, sideVars >>

(* return await openai.chat.completions.create(params) *)
CreateResolves ==
  /\ req.pc = "create"
  /\ \E completion \in Completions :
       req' = [ req EXCEPT
                  !.pc = "done",
                  !.attempts = Append(@, [ok |-> TRUE, response |-> completion,
                                          error |-> <<>>]),
                  !.outcome = [throws |-> FALSE, response |-> completion,
                               error |-> <<>>] ]
  /\ UNCHANGED << tableVars, now, jwtVars, last, dbVars, redemptions, sideVars >>

(* the catch block: the thrown value is kept, then slept on or rethrown *)
CreateRejects ==
  /\ req.pc = "create"
  /\ \E thrown \in ThrownValues :
       \E error \in { [thrown |-> thrown, raisedAt |-> req.attempt] } :
         req' = [ req EXCEPT
                    !.pc = IF RetryAllowed(thrown, req.attempt) THEN "sleep" ELSE "done",
                    !.lastError = error,
                    !.attempts = Append(@, [ok |-> FALSE, response |-> "",
                                            error |-> error]),
                    !.delays = IF RetryAllowed(thrown, req.attempt)
                               THEN Append(@, RETRY_DELAY_MS * req.attempt)
                               ELSE @,
                    !.outcome = IF RetryAllowed(thrown, req.attempt) THEN @
                                ELSE [throws |-> TRUE, response |-> "",
                                      error |-> error] ]
  /\ UNCHANGED << tableVars, now, jwtVars, last, dbVars, redemptions, sideVars >>

(* the sleep is over: attempt++ and the loop test; throw lastError after   *)
(* the loop                                                                *)
SleepEnds ==
  /\ req.pc = "sleep"
  /\ now' = now + req.delays[Len(req.delays)]
  /\ req' = IF req.attempt + 1 <= MAX_RETRIES
            THEN [ req EXCEPT !.pc = "create", !.attempt = @ + 1 ]
            ELSE [ req EXCEPT !.pc = "done", !.attempt = @ + 1,
                              !.outcome = [throws |-> TRUE, response |-> "",
                                           error |-> req.lastError] ]
  /\ UNCHANGED << tableVars, jwtVars, last, dbVars, redemptions, sideVars >>

NextRetry ==
  \/ CallOpenAIWithRetry
  \/ CreateResolves
  \/ CreateRejects
  \/ SleepEnds
  \/ Respond

(* a request to the API settles, and a timer that was set fires *)
RetryFairness == WF_vars(CreateResolves \/ CreateRejects) /\ WF_vars(SleepEnds)

SpecRetry == Init /\ [][NextRetry]_vars /\ RetryFairness

InRetry == last.op = "callOpenAIWithRetry"

(* C34: callOpenAIWithRetry makes at most 3 attempts per call, makes no    *)
(* further attempt after the first attempt that succeeds, and always       *)
(* terminates, returning the response of that attempt or throwing.         *)
RetryTerminates ==
  /\ [](InRetry =>
          /\ Len(req.attempts) <= 3
          /\ \A i \in 1..Len(req.attempts) :
               req.attempts[i].ok =>
                 /\ i = Len(req.attempts)
                 /\ req.pc = "done"
                 /\ req.outcome = [throws |-> FALSE,
                                   response |-> req.attempts[i].response,
                                   error |-> <<>>]
          /\ req.pc = "done" /\ ~req.outcome.throws =>
               Len(req.attempts) > 0 /\ req.attempts[Len(req.attempts)].ok)
  /\ (InRetry /\ req.pc # "done") ~> (InRetry /\ req.pc = "done")

(* the call returned the completion of its third attempt, after two delays *)
RetryWitness ==
  /\ InRetry
  /\ req.pc = "done"
  /\ Len(req.attempts) = 3
  /\ req.attempts[3].ok
  /\ req.delays = << 1000, 2000 >>

(* what went wrong was the connection, the name lookup, the network or a   *)
(* timeout                                                                 *)
RetryableKind(error) == error.thrown.kind \in { "connection", "dns", "network", "timeout" }

(* C35: callOpenAIWithRetry retries only after a retryable (connection,    *)
(* DNS, network or timeout) error: a non-retryable error is rethrown after *)
(* that single attempt with no delay and no further attempt, and when      *)
(* three attempts all fail with retryable errors the error rethrown is the *)
(* one raised by the third attempt.                                        *)
RetryOnlyRetryable ==
  InRetry =>
    /\ \A i \in 1..Len(req.attempts) :
         /\ i > 1 => ~req.attempts[i - 1].ok /\ RetryableKind(req.attempts[i - 1].error)
         /\ ~req.attempts[i].ok /\ ~RetryableKind(req.attempts[i].error) =>
              /\ i = Len(req.attempts)
              /\ Len(req.delays) = i - 1
              /\ req.pc = "done"
              /\ req.outcome = [throws |-> TRUE, response |-> "",
                                error |-> req.attempts[i].error]
    /\ /\ Len(req.attempts) = 3
       /\ \A i \in 1..3 : ~req.attempts[i].ok /\ RetryableKind(req.attempts[i].error)
       => /\ req.pc = "done"
          /\ req.delays = << 1000, 2000 >>
          /\ req.outcome = [throws |-> TRUE, response |-> "",
                            error |-> req.attempts[3].error]
          /\ req.outcome.error.raisedAt = 3

(* three attempts failed with retryable errors, the third other than the   *)
(* first two, and the call has thrown                                      *)
RetryOnlyWitness ==
  /\ InRetry
  /\ req.pc = "done"
  /\ Len(req.attempts) = 3
  /\ \A i \in 1..3 : ~req.attempts[i].ok /\ RetryableKind(req.attempts[i].error)
  /\ req.attempts[3].error.thrown # req.attempts[1].error.thrown
  /\ req.attempts[3].error.thrown # req.attempts[2].error.thrown
  /\ req.outcome.throws

-----------------------------------------------------------------------------
(* src/llm/openai.ts: the tool-call loop of callLLM.  Whether the loop     *)
(* goes round again depends on the engine's latest response alone, so the  *)
(* record of the conversation keeps the latest round only; the results     *)
(* collected by tool name are kept in full.                                *)

(* what the engine may ask for in a round: registry lookups, and a call    *)
(* whose arguments are not JSON                                            *)
LoopToolCalls ==
  { ToolMove("get_client", << Member("client_id", Str(c)) >>) :
      c \in { "test-client-1", "test-client-2" } }
  \cup { ToolMove("get_user", << Member("user_id", Str(u)) >>) : u \in { "user1", "nobody" } }
  \cup { ToolMove("get_access_token", << Member("token", Str("t1")) >>),
         [name |-> "get_client", arguments |-> "{"] }

LoopAnswers == { "{\"valid\":true}", "" }

(* callLLM(operation, userMessage) up to the first request to the engine *)
LoopCall ==
  /\ last = NoCall
  /\ req = Idle
  /\ \E operation \in Operations :
       req' = [ pc |-> "callLLM", operation |-> operation, params |-> <<>>,
                prompt |-> <<>>, messages |-> <<>>, toolResults |-> <<>> ]
  /\ last' = [op |-> "callLLM"]
  /\ UNCHANGED << tableVars, now, jwtVars, dbVars, redemptions, sideVars >>

(* the response carries tool_calls: with tools for the operation the calls *)
(* are run and the engine is asked again, without tools the content of the *)
(* response is returned                                                    *)
EngineCallsTool ==
  /\ req.pc = "callLLM"
  /\ \E toolCall \in LoopToolCalls :
       \E turn \in { LoopTurn(toolsByOperation[req.operation] # {},
                              processToolCall(toolCall, now, currentIssuer, rnd + 1,
                                              authorizationCodes, accessTokens),
                              authorizationCodes, accessTokens) } :
         /\ req' = IF toolsByOperation[req.operation] = {}
                   THEN Responded(req, 200, << Member("response", Str("")) >>)
                   ELSE AfterToolCall([ req EXCEPT !.messages = <<>> ], toolCall, turn.out)
         /\ authorizationCodes' = turn.out.authorizationCodes
         /\ accessTokens' = turn.out.accessTokens
  /\ UNCHANGED << tableVars, now, jwtVars, last, refreshTokens, redemptions, sideVars >>

(* the response carries no tool_calls: its content is returned *)
EngineReturns ==
  /\ req.pc = "callLLM"
  /\ \E content \in LoopAnswers :
       req' = Responded(req, 200, << Member("response", Str(content)) >>)
  /\ UNCHANGED << tableVars, now, jwtVars, last, dbVars, redemptions, sideVars >>

(* callOpenAIWithRetry throws, and so does callLLM *)
EngineFails ==
  /\ req.pc = "callLLM"
  /\ req' = Responded(req, 500, ServerError)
  /\ UNCHANGED << tableVars, now, jwtVars, last, dbVars, redemptions, sideVars >>

NextLoop ==
  \/ LoopCall
  \/ EngineCallsTool
  \/ EngineReturns
  \/ EngineFails
  \/ Respond

(* every request to the engine is answered, one way or another *)
LoopFairness == WF_vars(EngineCallsTool \/ EngineReturns \/ EngineFails)

SpecLoop == Init /\ [][NextLoop]_vars /\ LoopFairness

(* C36: callLLM makes a bounded number of round-trips per request: for     *)
(* every behaviour of the engine, also one that answers every round with   *)
(* further tool calls, the tool-call loop ends and callLLM returns or      *)
(* throws.                                                                 *)
LoopEnds == (req.pc = "callLLM") ~> (req.pc = "done")

-----------------------------------------------------------------------------
(* The registry tools as the engine sees them: every stored client and     *)
(* user is looked up, credentials are put to the test, and codes and       *)
(* tokens are saved and read back.                                         *)

ClientLookups ==
  { << Member("client_id", Str(c)) >> : c \in { "test-client-1", "test-client-2", "nobody" } }

UserLookups ==
  { << Member("user_id", Str(u)) >> : u \in { "user1", "user2", "admin", "nobody" } }

CredentialArgs ==
  { << Member("username", Str(u)), Member("password", Str(pw)) >> :
      u \in { "user1", "user2", "admin", "nobody" },
      pw \in { "password1", "password2", "admin123", "" } }

SecretInstants == { 0, 100 }

NextSecrets ==
  \/ Tick(SecretInstants)
  \/ DbToolCall("get_client", ClientLookups)
  \/ DbToolCall("validate_user_credentials", CredentialArgs)
  \/ DbToolCall("get_user", UserLookups)
  \/ DbToolCall("save_authorization_code", CodeArgs)
  \/ DbToolCall("get_authorization_code", CodeArgs)
  \/ DbToolCall("save_access_token", AccessTokenArgs)
  \/ DbToolCall("get_access_token", LookupArgs)
  \/ Return

SpecSecrets == Init /\ [][NextSecrets]_vars

(* the client secrets and passwords of the stored records *)
StoredSecrets ==
  { Get(Clients[c], "client_secret").s : c \in DOMAIN Clients }
    \cup { Get(Users[u], "password").s : u \in DOMAIN Users }

(* the record the answer carries under name is the stored one less the     *)
(* secret member                                                           *)
CarriesSafe(result, name, stored, secret) ==
  HasKey(result, name) =>
    /\ ~HasKey(Get(result, name).o, secret)
    /\ \E id \in DOMAIN stored : Get(result, name).o = Omit(stored[id], secret)

(* C37: no registry tool result handed to the engine contains a            *)
(* client_secret or a user password: for every stored client and user the  *)
(* results of get_client, validate_user_credentials and get_user omit      *)
(* those fields, and the stored records are left unchanged.                *)
NoSecretsInResults ==
  last.op \in DbToolNames =>
    /\ \A secret \in StoredSecrets :
         ~Includes(JsonStringify(last.out.result), secret)
    /\ ~Includes(JsonStringify(last.out.result), "client_secret")
    /\ ~Includes(JsonStringify(last.out.result), "\"password\"")
    /\ last.op = "get_client" =>
         CarriesSafe(last.out.result, "client", Clients, "client_secret")
    /\ last.op \in { "validate_user_credentials", "get_user" } =>
         CarriesSafe(last.out.result, "user", Users, "password")
    /\ clients = Clients
    /\ users = Users

(* validate_user_credentials has answered valid = true for the             *)
(* administrator, with the user record in the answer                       *)
NoSecretsWitness ==
  /\ last.op = "validate_user_credentials"
  /\ Get(last.out.result, "valid") = Bool(TRUE)
  /\ Get(Get(last.out.result, "user").o, "user_id") = Str("admin")
  /\ Get(last.args, "password") = Get(users["admin"], "password")

-----------------------------------------------------------------------------
(* The state check of the relying-party callback                           *)

(* the callback carried the capsule that GET / sealed, and a state other   *)
(* than the one sealed in it                                               *)
StateMismatch ==
  /\ last.op = "callback"
  /\ last.cookie = artifact
  /\ last.query.state # Get(issued.of, "state").s

(* a token request is sent only for the sealed capsule and the state held  *)
(* in it                                                                   *)
SentOnlyOnMatch ==
  IsCallback /\ last.answer.sent =>
    /\ last.cookie = artifact
    /\ last.query.state = Get(issued.of, "state").s
    /\ Get(parseSignedCookie(last.cookie).obj, "state") = Str(last.query.state)

(* C38: the callback sends a token request only when the state query       *)
(* parameter equals the state held inside the verified session capsule; on *)
(* a mismatch it answers 400 and makes no token request.                   *)
StateMismatchRejected ==
  /\ SentOnlyOnMatch
  /\ StateMismatch => last.answer.status = 400 /\ ~last.answer.sent

(* C38, as the code has it: a token request is sent only when the state    *)
(* parameter equals the state in the verified capsule; on a mismatch no    *)
(* token request is made, and the answer has status 400 unless the         *)
(* callback carries an error parameter, which is answered with the error   *)
(* page (status 200) before the state is looked at.                        *)
StateCompared ==
  /\ SentOnlyOnMatch
  /\ StateMismatch =>
       /\ ~last.answer.sent
       /\ last.answer.status = IF last.query.error = "" THEN 400 ELSE 200

(* a callback with a code, the sealed capsule and the state of another     *)
(* login was answered "State Mismatch"                                     *)
StateWitness ==
  /\ StateMismatch
  /\ last.query.code = "code-1"
  /\ last.query.state = "other-state"
  /\ last.query.error = ""
  /\ last.answer = Answered(400, "State Mismatch")

====
